---- MODULE Spec2Model ----
(***************************************************************************)
(* Portfolio planner (crml_engine.pipeline.portfolio_planner) and the      *)
(* portfolio runtime (crml_engine.runtime) of the CRML reference engine.   *)
(*                                                                         *)
(* Numbers in [0,1] are kept exactly, as integers over a denominator:      *)
(* a probability p is the integer p*Unit, a product of n probabilities the *)
(* integer over Unit^n.  An absent (Python None) number is None.           *)
(***************************************************************************)
EXTENDS Integers, Sequences, FiniteSets, TLC

VARIABLES call, pc, errors, warnings, catalog_ids, assessment_by_id,
          portfolio_controls_by_id, dependency_plan, resolved_scenarios,
          idx, report, control_state, multipliers, scenario_losses,
          scenario_weights, seeds, result, validation

vars == <<call, pc, errors, warnings, catalog_ids, assessment_by_id,
          portfolio_controls_by_id, dependency_plan, resolved_scenarios,
          idx, report, control_state, multipliers, scenario_losses,
          scenario_weights, seeds, result, validation>>

(* ---------------------------------------------------------------------- *)
(* Bounds of the model                                                    *)
(* ---------------------------------------------------------------------- *)
Unit == 2
MaxAssets == 2
MaxCard == 2
MaxTargets == 3
NRuns == 2
MaxLoss == 1
MaxCount == 1
MaxScenarios == 2
MaxSeed == 1

(* ---------------------------------------------------------------------- *)
(* Values                                                                 *)
(* ---------------------------------------------------------------------- *)
None == -1
NoStr == "none"

OptProb ==
    LET
        Prob == 0..Unit
    IN
        {None} \cup Prob

EffScale == Unit * Unit * Unit
CovScale == Unit * Unit
RelScale == Unit

Max2(a, b) == IF a >= b THEN a ELSE b
RECURSIVE Pow(_, _)
Pow(b, n) == IF n = 0 THEN 1 ELSE b * Pow(b, n - 1)

RECURSIVE SumSeq(_)
SumSeq(s) == IF s = <<>> THEN 0 ELSE Head(s) + SumSeq(Tail(s))

Range(s) == {s[i] : i \in 1..Len(s)}

SeqsUpTo(S, n) == UNION {[1..k -> S] : k \in 0..n}

(* ---------------------------------------------------------------------- *)
(* Documents: the portfolio, the files it names, the scenario documents   *)
(* ---------------------------------------------------------------------- *)
AssetNamePool == <<"a1", "a2", "a3", "a4">>
ControlIdPool == <<"c1", "c2", "c3", "c4", "c5">>
UnknownAsset == "zz"
UnknownControl == "cx"

Methods == {"sum", "mixture", "choose_one", "max"}
Bases == {"per_organization_per_year", "per_asset_unit_per_year"}
Affects == {"frequency", "severity", "both"}

\* Asset(name, cardinality>=1, tags, criticality_index.type)
Asset(n, c, t) == [name |-> n, cardinality |-> c, tags |-> t, crit |-> NoStr]

\* PortfolioControl / ControlAssessment: the fields the planner reads
InvEntry(id, eff, cov, basis, rel, aff) ==
    [id |-> id, implementation_effectiveness |-> eff, coverage |-> cov,
     coverage_basis |-> IF cov = None THEN NoStr ELSE basis,
     reliability |-> rel, affects |-> aff]

\* An element of scenario.controls: a plain id or a ScenarioControl object
PlainControl(id) ==
    [plain |-> TRUE, id |-> id, implementation_effectiveness |-> None,
     coverage |-> None, coverage_basis |-> NoStr, potency |-> None]
ObjectControl(id, eff, cov, basis, pot) ==
    [plain |-> FALSE, id |-> id, implementation_effectiveness |-> eff,
     coverage |-> cov, coverage_basis |-> IF cov = None THEN NoStr ELSE basis,
     potency |-> pot]

\* binding.applies_to_assets: None or a list of names
NoBinding == [given |-> FALSE, names |-> <<>>]
Binding(names) == [given |-> TRUE, names |-> names]

\* ScenarioRef.weight: None or a number
NoWeight == [given |-> FALSE, value |-> 0]

\* an optional number of a scenario document
NoParam == [given |-> FALSE, value |-> 0]
Param(v) == [given |-> TRUE, value |-> v]

\* FrequencyParameters: the fields the model declares
FrequencyParameters(lambda_, alpha_base, beta_base) ==
    [attrs |-> {"lambda_", "alpha_base", "beta_base", "r", "p"},
     lambda_ |-> lambda_, alpha_base |-> alpha_base, beta_base |-> beta_base,
     shape |-> NoParam, scale |-> NoParam]
\* SeverityParameters; single_losses is absent, a list that calibrates, or
\* a list the calibration rejects
SeverityParameters(median, mu, sigma, shape, scale, single_losses) ==
    [median |-> median, mu |-> mu, sigma |-> sigma, shape |-> shape, scale |-> scale,
     single_losses |-> single_losses]
\* the scenario of a CRScenarioSchema
Scenario(fm, fp, sm, sp, components) ==
    [frequency |-> [model |-> fm, parameters |-> fp],
     severity |-> [model |-> sm, parameters |-> sp, components |-> components]]

PoissonOne == FrequencyParameters(Param(1), NoParam, NoParam)
LognormalOne == SeverityParameters(Param(1), NoParam, Param(1), NoParam, NoParam, NoStr)
SupportedScenario == Scenario("poisson", PoissonOne, "lognormal", LognormalOne, <<>>)
UnsupportedScenario == Scenario("weibull", PoissonOne, "lognormal", LognormalOne, <<>>)

\* A ScenarioRef together with the scenario file its path names
ScenarioRef(id, file, basis, binding, controls, model) ==
    [id |-> id, path |-> id, file |-> file, basis |-> basis, binding |-> binding,
     controls |-> controls, weight |-> NoWeight, model |-> model]

\* A control catalog / assessment pack file named by the portfolio
CatalogPack(file, ids) == [file |-> file, ids |-> ids]
AssessmentPack(file, entries) == [file |-> file, entries |-> entries]

\* A copula target string "<head><id><tail>"
Target(head, id, tail) == [head |-> head, id |-> id, tail |-> tail]
StateRef(id) == Target("control:", id, ":state")

NoCopula ==
    [present |-> FALSE, targets |-> <<>>, has_matrix |-> FALSE, matrix |-> <<>>,
     structure |-> NoStr, has_rho |-> FALSE, rho |-> 0]
ToeplitzCopula(targets, has_rho, rho) ==
    [present |-> TRUE, targets |-> targets, has_matrix |-> FALSE, matrix |-> <<>>,
     structure |-> "toeplitz", has_rho |-> has_rho, rho |-> rho]
MatrixCopula(targets, m) ==
    [present |-> TRUE, targets |-> targets, has_matrix |-> TRUE, matrix |-> m,
     structure |-> NoStr, has_rho |-> FALSE, rho |-> 0]

(* ---------------------------------------------------------------------- *)
(* Planner: messages, report, plan                                        *)
(* ---------------------------------------------------------------------- *)
\* PlanMessage(level, path, message): the path with its index, the kind of
\* message and the id or name the message text quotes
PlanMessage(level, path, i, kind, who) ==
    [level |-> level, path |-> path, idx |-> i, kind |-> kind, who |-> who]
Error(path, i, kind, who) == PlanMessage("error", path, i, kind, who)
Warning(path, i, kind, who) == PlanMessage("warning", path, i, kind, who)

NoDependency == [present |-> FALSE, type |-> NoStr, targets |-> <<>>, matrix |-> <<>>]
NoPlan ==
    [present |-> FALSE, semantics_method |-> NoStr, assets |-> <<>>,
     scenarios |-> <<>>, dependency |-> NoDependency]
NoReport ==
    [returned |-> FALSE, raised |-> NoStr, ok |-> FALSE, errors |-> <<>>,
     warnings |-> <<>>, plan |-> NoPlan]
PlanReport(ok, errs, warns, plan) ==
    [returned |-> TRUE, raised |-> NoStr, ok |-> ok, errors |-> errs,
     warnings |-> warns, plan |-> plan]

(* ---------------------------------------------------------------------- *)
(* Planner: pure helpers                                                  *)
(* ---------------------------------------------------------------------- *)
\* _is_control_state_ref, were the prefix not looked at
_is_control_state_ref_AnyPrefix(ref) ==
    /\ ref.tail = ":state"
    /\ ref.id # ""

_is_control_state_ref(ref) ==
    /\ ref.head = "control:"
    /\ ref.tail = ":state"
    /\ ref.id # ""

_extract_control_id_from_state_ref(ref) == ref.id

\* Correlations are integers over CorrScale, so that rho^k is exact for
\* every k below the largest dimension
CorrScale == Pow(Unit, MaxTargets - 1)
_toeplitz_corr_Flat(dim, rho) ==
    [i \in 1..dim |-> [j \in 1..dim |->
        IF i = j THEN CorrScale ELSE rho * Pow(Unit, MaxTargets - 2)]]
_toeplitz_corr(dim, rho) ==
    LET
        Abs(x) == IF x < 0 THEN -x ELSE x
        RhoPow(k) == Pow(rho, k) * Pow(Unit, MaxTargets - 1 - k)
    IN
        [i \in 1..dim |-> [j \in 1..dim |-> RhoPow(Abs(i - j))]]

RowError(m, dim, i) ==
    LET
        EntryError(j) ==
            IF i = j /\ m[i][j] # CorrScale THEN "diagonal"
            ELSE IF m[i][j] < -CorrScale \/ m[i][j] > CorrScale THEN "range"
            ELSE NoStr
    IN
        IF Len(m[i]) # dim THEN "row_length"
        ELSE LET bad == {j \in 1..dim : EntryError(j) # NoStr}
             IN IF bad = {} THEN NoStr
                ELSE EntryError(CHOOSE j \in bad : \A k \in bad : j <= k)

\* _validate_corr_matrix, were the symmetry loop missing
_validate_corr_matrix_NoSymmetry(matrix, dim) ==
    IF Len(matrix) # dim THEN "rows"
    ELSE LET badRows == {i \in 1..dim : RowError(matrix, dim, i) # NoStr}
         IN IF badRows # {}
            THEN RowError(matrix, dim, CHOOSE i \in badRows : \A k \in badRows : i <= k)
            ELSE NoStr

_validate_corr_matrix(matrix, dim) ==
    IF Len(matrix) # dim THEN "rows"
    ELSE LET badRows == {i \in 1..dim : RowError(matrix, dim, i) # NoStr}
         IN IF badRows # {}
            THEN RowError(matrix, dim, CHOOSE i \in badRows : \A k \in badRows : i <= k)
            ELSE IF \E i \in 1..dim : \E j \in (i + 1)..dim : matrix[i][j] # matrix[j][i]
                 THEN "symmetric"
                 ELSE NoStr

\* (id, eff_factor, coverage_factor(value, basis), potency_factor)
_scenario_controls_to_objects(controls_any) ==
    [k \in 1..Len(controls_any) |->
        LET c == controls_any[k] IN
        IF c.plain
        THEN [id |-> c.id, eff |-> None, cov |-> None, cov_basis |-> NoStr, pot |-> None]
        ELSE [id |-> c.id, eff |-> c.implementation_effectiveness,
              cov |-> c.coverage, cov_basis |-> c.coverage_basis, pot |-> c.potency]]

\* clamp of x/scale to [0,1]
_clamp01(x, scale) ==
    LET
        Min2(a, b) == IF a <= b THEN a ELSE b
    IN
        Max2(0, Min2(scale, x))

_distinct_non_none(values) == {v \in Range(values) : v # NoStr}

(* ---------------------------------------------------------------------- *)
(* Planner: packs and inventory                                           *)
(* ---------------------------------------------------------------------- *)
RECURSIVE PackErrors(_, _, _)
PackErrors(packs, i, path) ==
    IF i > Len(packs) THEN <<>>
    ELSE (IF packs[i].file = "missing"
            THEN <<Error(path, i - 1, "file_not_found", NoStr)>>
          ELSE IF packs[i].file = "invalid"
            THEN <<Error(path, i - 1, "invalid_pack", NoStr)>>
          ELSE <<>>) \o PackErrors(packs, i + 1, path)

RECURSIVE FlattenAssessments(_, _)
FlattenAssessments(packs, i) ==
    IF i > Len(packs) THEN <<>>
    ELSE (IF packs[i].file = "ok"
            THEN [k \in 1..Len(packs[i].entries) |->
                    [pack |-> i - 1, entry |-> packs[i].entries[k]]]
            ELSE <<>>) \o FlattenAssessments(packs, i + 1)

\* assessment_by_id[a.id] = a, warning when the id is already there
RECURSIVE AssessmentFold(_, _, _, _)
AssessmentFold(flat, k, by_id, warns) ==
    IF k > Len(flat) THEN [by_id |-> by_id, warnings |-> warns]
    ELSE LET a == flat[k].entry
             w == IF a.id \in DOMAIN by_id
                  THEN <<Warning("portfolio.control_assessments", flat[k].pack,
                                 "duplicate_assessment", a.id)>>
                  ELSE <<>>
         IN AssessmentFold(flat, k + 1, (a.id :> a) @@ by_id, warns \o w)

\* {c.id: c for c in portfolio.controls}: the last entry of an id wins
RECURSIVE ControlsById(_, _, _)
ControlsById(controls, k, by_id) ==
    IF k > Len(controls) THEN by_id
    ELSE ControlsById(controls, k + 1, (controls[k].id :> controls[k]) @@ by_id)

RECURSIVE InventoryErrors(_, _, _)
InventoryErrors(controls, k, cat_ids) ==
    IF k > Len(controls) THEN <<>>
    ELSE (IF cat_ids # {} /\ controls[k].id \notin cat_ids
            THEN <<Error("portfolio.controls.id", k - 1, "unknown_control", controls[k].id)>>
            ELSE <<>>) \o InventoryErrors(controls, k + 1, cat_ids)

\* {a.name: a for a in portfolio.assets} and list(assets_by_name.keys())
RECURSIVE AssetsByName(_, _, _)
AssetsByName(assets, k, by_name) ==
    IF k > Len(assets) THEN by_name
    ELSE AssetsByName(assets, k + 1, (assets[k].name :> assets[k]) @@ by_name)

RECURSIVE AllAssetNames(_, _, _)
AllAssetNames(assets, k, names) ==
    IF k > Len(assets) THEN names
    ELSE AllAssetNames(assets, k + 1,
            IF assets[k].name \in Range(names) THEN names
            ELSE Append(names, assets[k].name))

(* ---------------------------------------------------------------------- *)
(* Planner: control resolution                                            *)
(* ---------------------------------------------------------------------- *)
NoInventory ==
    [implementation_effectiveness |-> None, coverage |-> None,
     coverage_basis |-> NoStr, reliability |-> None, affects |-> NoStr]

InventoryFields(e) ==
    [implementation_effectiveness |-> e.implementation_effectiveness,
     coverage |-> e.coverage, coverage_basis |-> e.coverage_basis,
     reliability |-> e.reliability, affects |-> e.affects]

\* InventoryLookup, were a field the portfolio entry leaves unset taken from
\* the assessment entry
InventoryLookup_PerField(cid, p_by_id, a_by_id) ==
    IF cid \in DOMAIN p_by_id /\ cid \in DOMAIN a_by_id
    THEN LET inv == InventoryFields(p_by_id[cid])
             assess == InventoryFields(a_by_id[cid])
             Num(f) == IF inv[f] = None THEN assess[f] ELSE inv[f]
             Str(f) == IF inv[f] = NoStr THEN assess[f] ELSE inv[f]
         IN [implementation_effectiveness |-> Num("implementation_effectiveness"),
             coverage |-> Num("coverage"), coverage_basis |-> Str("coverage_basis"),
             reliability |-> Num("reliability"), affects |-> Str("affects")]
    ELSE IF cid \in DOMAIN p_by_id THEN InventoryFields(p_by_id[cid])
    ELSE IF cid \in DOMAIN a_by_id THEN InventoryFields(a_by_id[cid])
    ELSE NoInventory

\* InventoryLookup, were the assessment packs looked up first
InventoryLookup_AssessmentFirst(cid, p_by_id, a_by_id) ==
    IF cid \in DOMAIN a_by_id THEN InventoryFields(a_by_id[cid])
    ELSE IF cid \in DOMAIN p_by_id THEN InventoryFields(p_by_id[cid])
    ELSE NoInventory

\* portfolio.controls first, the assessment packs only when the id is not
\* in portfolio.controls
InventoryLookup(cid, p_by_id, a_by_id) ==
    IF cid \in DOMAIN p_by_id THEN InventoryFields(p_by_id[cid])
    ELSE IF cid \in DOMAIN a_by_id THEN InventoryFields(a_by_id[cid])
    ELSE NoInventory

OrOne(f) == IF f # None THEN f ELSE Unit

\* CombinedEffectiveness, were the potency factor left out
CombinedEffectiveness_NoPotency(inventory_eff, eff_factor, pot_factor) ==
    IF inventory_eff = None THEN None
    ELSE _clamp01(inventory_eff * OrOne(eff_factor) * Unit, EffScale)

CombinedEffectiveness(inventory_eff, eff_factor, pot_factor) ==
    IF inventory_eff = None THEN None
    ELSE _clamp01(inventory_eff * OrOne(eff_factor) * OrOne(pot_factor), EffScale)

\* CombinedCoverage, were the factor added and the sum not clamped
CombinedCoverage_Added(inventory_cov_val, cov_factor_val) ==
    IF inventory_cov_val = None THEN None
    ELSE (inventory_cov_val + OrOne(cov_factor_val)) * Unit

CombinedCoverage(inventory_cov_val, cov_factor_val) ==
    IF inventory_cov_val = None THEN None
    ELSE _clamp01(inventory_cov_val * OrOne(cov_factor_val), CovScale)

ResolvedScenarioControl(c, inv) ==
    LET
        CombinedReliability(inventory_rel) ==
            _clamp01(IF inventory_rel # None THEN inventory_rel ELSE Unit, RelScale)
    IN
        [id |-> c.id,
         inventory_implementation_effectiveness |-> inv.implementation_effectiveness,
         inventory_coverage_value |-> inv.coverage,
         inventory_coverage_basis |-> inv.coverage_basis,
         inventory_reliability |-> inv.reliability,
         affects |-> inv.affects,
         scenario_implementation_effectiveness_factor |-> c.eff,
         scenario_coverage_factor |-> c.cov,
         scenario_coverage_basis |-> c.cov_basis,
         scenario_potency_factor |-> c.pot,
         combined_implementation_effectiveness |->
            CombinedEffectiveness(inv.implementation_effectiveness, c.eff, c.pot),
         combined_coverage_value |-> CombinedCoverage(inv.coverage, c.cov),
         combined_reliability |-> CombinedReliability(inv.reliability)]

\* The loop over controls_norm of one scenario reference: the resolved
\* controls, and the errors and warnings it appends
RECURSIVE ResolveControls(_, _, _, _, _, _)
ResolveControls(controls_norm, k, i, p_by_id, a_by_id, acc) ==
    IF k > Len(controls_norm) THEN acc
    ELSE LET c == controls_norm[k]
             inv == InventoryLookup(c.id, p_by_id, a_by_id)
         IN IF inv.implementation_effectiveness = None /\ inv.coverage = None
            THEN ResolveControls(controls_norm, k + 1, i, p_by_id, a_by_id,
                    [acc EXCEPT !.errors =
                        Append(@, Error("portfolio.scenarios.path", i, "no_inventory", c.id))])
            ELSE ResolveControls(controls_norm, k + 1, i, p_by_id, a_by_id,
                    [acc EXCEPT
                        !.controls = Append(@, ResolvedScenarioControl(c, inv)),
                        !.warnings =
                            IF /\ inv.coverage_basis # NoStr
                               /\ c.cov_basis # NoStr
                               /\ inv.coverage_basis # c.cov_basis
                            THEN Append(@, Warning("portfolio.scenarios.path", i,
                                                   "coverage_basis_mismatch", c.id))
                            ELSE @])

(* ---------------------------------------------------------------------- *)
(* Planner: one scenario reference                                        *)
(* ---------------------------------------------------------------------- *)
LargeCardinality == 100000

\* ScenarioCardinality, were it to count the bound assets, not their units
ScenarioCardinality_CountsAssets(basis, applies_to_assets_list, assets_by_name) ==
    IF basis = "per_asset_unit_per_year" THEN Len(applies_to_assets_list) ELSE 1

ScenarioCardinality(basis, applies_to_assets_list, assets_by_name) ==
    IF basis = "per_asset_unit_per_year"
    THEN SumSeq([k \in 1..Len(applies_to_assets_list) |->
                    assets_by_name[applies_to_assets_list[k]].cardinality])
    ELSE 1

\* NoAssetsBound, were the basis not looked at
NoAssetsBound_AnyBasis(basis, applies_to_assets_list) ==
    applies_to_assets_list = <<>>

\* lines 472-473: a per-asset scenario with nothing bound
NoAssetsBound(basis, applies_to_assets_list) ==
    basis = "per_asset_unit_per_year" /\ applies_to_assets_list = <<>>

\* The body of the loop over portfolio.scenarios for the reference at
\* index i: what it appends to errors, warnings and resolved_scenarios
ScenarioStep(sref, i, assets, p_by_id, a_by_id) ==
    LET
        ResolvedScenario(applies_to_assets_list, cardinality, controls) ==
            [id |-> sref.id, weight |-> sref.weight,
             applies_to_assets |-> applies_to_assets_list,
             cardinality |-> cardinality, controls |-> controls, model |-> sref.model]
    IN
        LET assets_by_name == AssetsByName(assets, 1, <<>>)
            all_asset_names == AllAssetNames(assets, 1, <<>>)
            nothing == [errors |-> <<>>, warnings |-> <<>>, resolved |-> <<>>]
            applies_to_assets_list ==
                IF sref.binding.given THEN sref.binding.names ELSE all_asset_names
            basis_warning ==
                IF sref.basis = "per_organization_per_year" /\ sref.binding.given
                THEN <<Warning("portfolio.scenarios.binding.applies_to_assets", i,
                               "basis_ignores_binding", NoStr)>>
                ELSE <<>>
            IsUnknown(a) == a \notin DOMAIN assets_by_name
            unknown_assets == SelectSeq(applies_to_assets_list, IsUnknown)
            cardinality == ScenarioCardinality(sref.basis, applies_to_assets_list, assets_by_name)
            bound_assets == [k \in 1..Len(applies_to_assets_list) |->
                                assets_by_name[applies_to_assets_list[k]]]
            distinct_tag_sets ==
                _distinct_non_none([k \in 1..Len(bound_assets) |-> bound_assets[k].tags])
            distinct_crit_types ==
                _distinct_non_none([k \in 1..Len(bound_assets) |-> bound_assets[k].crit])
            heuristics ==
                IF sref.basis = "per_asset_unit_per_year"
                THEN (IF cardinality >= LargeCardinality
                        THEN <<Warning("portfolio.scenarios", i, "large_cardinality", NoStr)>>
                        ELSE <<>>)
                     \o (IF Cardinality(distinct_tag_sets) > 1 \/ Cardinality(distinct_crit_types) > 1
                        THEN <<Warning("portfolio.scenarios.binding.applies_to_assets", i,
                                       "heterogeneous_assets", NoStr)>>
                        ELSE <<>>)
                ELSE <<>>
            resolved == ResolveControls(_scenario_controls_to_objects(sref.controls), 1, i,
                                        p_by_id, a_by_id,
                                        [controls |-> <<>>, errors |-> <<>>, warnings |-> <<>>])
        IN  IF sref.file = "missing"
            THEN [nothing EXCEPT
                    !.errors = <<Error("portfolio.scenarios.path", i, "scenario_not_found", NoStr)>>]
            ELSE IF sref.file = "invalid"
            THEN [nothing EXCEPT
                    !.errors = <<Error("portfolio.scenarios.path", i, "invalid_scenario", NoStr)>>]
            ELSE IF unknown_assets # <<>>
            THEN [nothing EXCEPT
                    !.errors = <<Error("portfolio.scenarios.binding.applies_to_assets", i,
                                       "unknown_assets", unknown_assets[1])>>,
                    !.warnings = basis_warning]
            ELSE IF NoAssetsBound(sref.basis, applies_to_assets_list)
            THEN [nothing EXCEPT
                    !.errors = <<Error("portfolio.scenarios.binding.applies_to_assets", i,
                                       "no_assets_bound", NoStr)>>,
                    !.warnings = basis_warning]
            ELSE [errors |-> resolved.errors,
                  warnings |-> basis_warning \o heuristics \o resolved.warnings,
                  resolved |-> <<ResolvedScenario(applies_to_assets_list, cardinality,
                                                  resolved.controls)>>]

(* ---------------------------------------------------------------------- *)
(* Planner: dependency (copula) normalization                             *)
(* ---------------------------------------------------------------------- *)
RECURSIVE TargetErrors(_, _, _, _)
TargetErrors(target_control_ids, k, p_by_id, a_by_id) ==
    IF k > Len(target_control_ids) THEN <<>>
    ELSE (IF /\ target_control_ids[k] \notin DOMAIN p_by_id
             /\ target_control_ids[k] \notin DOMAIN a_by_id
            THEN <<Error("portfolio.dependency.copula.targets", 0,
                         "target_not_found", target_control_ids[k])>>
            ELSE <<>>) \o TargetErrors(target_control_ids, k + 1, p_by_id, a_by_id)

DependencyStep(cop, p_by_id, a_by_id) ==
    LET targets == cop.targets
        dim == Len(targets)
        IsBad(t) == ~_is_control_state_ref(t)
        bad_targets == SelectSeq(targets, IsBad)
        target_control_ids ==
            [k \in 1..dim |-> _extract_control_id_from_state_ref(targets[k])]
        structure_errors ==
            IF ~cop.has_matrix /\ cop.structure \notin {NoStr, "toeplitz"}
            THEN <<Error("portfolio.dependency.copula.structure", 0,
                         "unsupported_structure", cop.structure)>>
            ELSE <<>>
        rho_errors ==
            IF ~cop.has_matrix /\ ~cop.has_rho
            THEN <<Error("portfolio.dependency.copula.rho", 0, "rho_required", NoStr)>>
            ELSE <<>>
        has_corr == cop.has_matrix \/ cop.has_rho
        corr == IF cop.has_matrix THEN cop.matrix ELSE _toeplitz_corr(dim, cop.rho)
        err == _validate_corr_matrix(corr, dim)
    IN  IF ~cop.present
        THEN [errors |-> <<>>, plan |-> NoDependency]
        ELSE IF bad_targets # <<>>
        THEN [errors |-> <<Error("portfolio.dependency.copula.targets", 0,
                                 "unsupported_targets", bad_targets[1].id)>>,
              plan |-> NoDependency]
        ELSE [errors |->
                TargetErrors(target_control_ids, 1, p_by_id, a_by_id)
                \o structure_errors \o rho_errors
                \o (IF has_corr /\ err # NoStr
                      THEN <<Error("portfolio.dependency.copula", 0, err, NoStr)>>
                      ELSE <<>>),
              plan |->
                IF has_corr /\ err = NoStr
                THEN [present |-> TRUE, type |-> "gaussian",
                      targets |-> targets, matrix |-> corr]
                ELSE NoDependency]

(* ---------------------------------------------------------------------- *)
(* plan_portfolio, step by step                                           *)
(* ---------------------------------------------------------------------- *)
doc == call.doc

SchemaValid(d) ==
    /\ d.wellformed
    /\ d.method \in Methods
    /\ d.copula.present => Len(d.copula.targets) >= 1

NoResult ==
    [returned |-> FALSE, raised |-> NoStr, success |-> FALSE, errors |-> <<>>,
     has_metrics |-> FALSE, total |-> <<>>]

\* where control goes when plan_portfolio returns or raises
AfterReturn == IF call.entry = "plan_portfolio" THEN "done" ELSE "run_check"
PlannerLocals ==
    <<errors, warnings, catalog_ids, assessment_by_id, portfolio_controls_by_id,
      dependency_plan, resolved_scenarios, idx>>
RuntimeLocals == <<control_state, multipliers, scenario_losses, scenario_weights, seeds>>

\* lines 252-271: read the source
LoadSource ==
    LET
        Propagate(exc) ==
            IF call.entry = "plan_portfolio" THEN result ELSE [NoResult EXCEPT !.raised = exc]
    IN
        /\ pc = "load"
        /\ IF call.source_kind = "path" /\ call.load # "ok"
           THEN /\ report' = PlanReport(FALSE, <<Error("(io)", 0, call.load, NoStr)>>, <<>>, NoPlan)
                /\ pc' = AfterReturn
                /\ result' = result
           ELSE IF call.source_kind = "yaml" /\ call.load = "yaml_error"
           THEN /\ report' = [NoReport EXCEPT !.raised = "YAMLError"]
                /\ pc' = "raised"
                /\ result' = Propagate("YAMLError")
           ELSE IF call.source_kind = "yaml" /\ call.load = "not_mapping"
           THEN /\ report' = PlanReport(FALSE, <<Error("(root)", 0, call.load, NoStr)>>, <<>>, NoPlan)
                /\ pc' = AfterReturn
                /\ result' = result
           ELSE /\ pc' = "validate"
                /\ UNCHANGED <<report, result>>
        /\ UNCHANGED <<call, validation, PlannerLocals, RuntimeLocals>>

\* lines 273-276: CRPortfolioSchema.model_validate
ValidateSchema ==
    /\ pc = "validate"
    /\ IF SchemaValid(doc)
       THEN /\ pc' = "catalogs"
            /\ UNCHANGED report
       ELSE /\ report' = PlanReport(FALSE, <<Error("(schema)", 0, "schema", NoStr)>>, <<>>, NoPlan)
            /\ pc' = AfterReturn
    /\ UNCHANGED <<call, validation, PlannerLocals, RuntimeLocals, result>>

\* lines 298-307
LoadCatalogs ==
    LET
        CatalogIds(packs) ==
            UNION {packs[i].ids : i \in {k \in 1..Len(packs) : packs[k].file = "ok"}}
    IN
        /\ pc = "catalogs"
        /\ catalog_ids' = CatalogIds(doc.catalogs)
        /\ errors' = errors \o PackErrors(doc.catalogs, 1, "portfolio.control_catalogs")
        /\ pc' = "assessments"
        /\ UNCHANGED <<call, validation, warnings, assessment_by_id, portfolio_controls_by_id,
                       dependency_plan, resolved_scenarios, idx, report, RuntimeLocals, result>>

\* lines 309-326
LoadAssessments ==
    /\ pc = "assessments"
    /\ LET folded == AssessmentFold(FlattenAssessments(doc.assessments, 1), 1, <<>>, <<>>)
       IN /\ assessment_by_id' = folded.by_id
          /\ warnings' = warnings \o folded.warnings
    /\ errors' = errors \o PackErrors(doc.assessments, 1, "portfolio.control_assessments")
    /\ pc' = "inventory"
    /\ UNCHANGED <<call, validation, catalog_ids, portfolio_controls_by_id, dependency_plan,
                   resolved_scenarios, idx, report, RuntimeLocals, result>>

\* lines 329-339
BuildInventory ==
    /\ pc = "inventory"
    /\ portfolio_controls_by_id' = ControlsById(doc.controls, 1, <<>>)
    /\ errors' = errors \o InventoryErrors(doc.controls, 1, catalog_ids)
    /\ pc' = "dependency"
    /\ UNCHANGED <<call, validation, warnings, catalog_ids, assessment_by_id, dependency_plan,
                   resolved_scenarios, idx, report, RuntimeLocals, result>>

\* lines 344-412
ResolveDependency ==
    /\ pc = "dependency"
    /\ LET step == DependencyStep(doc.copula, portfolio_controls_by_id, assessment_by_id)
       IN /\ errors' = errors \o step.errors
          /\ dependency_plan' = step.plan
    /\ pc' = "scenarios"
    /\ UNCHANGED <<call, validation, warnings, catalog_ids, assessment_by_id, portfolio_controls_by_id,
                   resolved_scenarios, idx, report, RuntimeLocals, result>>

\* lines 414-634: one iteration of the loop over portfolio.scenarios
ResolveScenario ==
    /\ pc = "scenarios"
    /\ idx < Len(doc.scenarios)
    /\ LET step == ScenarioStep(doc.scenarios[idx + 1], idx, doc.assets,
                                portfolio_controls_by_id, assessment_by_id)
       IN /\ errors' = errors \o step.errors
          /\ warnings' = warnings \o step.warnings
          /\ resolved_scenarios' = resolved_scenarios \o step.resolved
    /\ idx' = idx + 1
    /\ UNCHANGED <<call, validation, pc, catalog_ids, assessment_by_id, portfolio_controls_by_id,
                   dependency_plan, report, RuntimeLocals, result>>

\* FinalReport, were a warning to hold the plan back as an error does
FinalReport_WarningsBlock(errs, warns, plan_) ==
    IF errs # <<>> \/ warns # <<>>
    THEN PlanReport(FALSE, errs, warns, NoPlan)
    ELSE PlanReport(TRUE, <<>>, warns, plan_)

\* lines 636-647: the report of a planning run that reached its end
FinalReport(errs, warns, plan_) ==
    IF errs # <<>>
    THEN PlanReport(FALSE, errs, warns, NoPlan)
    ELSE PlanReport(TRUE, <<>>, warns, plan_)

AssemblePlan ==
    /\ pc = "scenarios"
    /\ idx = Len(doc.scenarios)
    /\ report' = FinalReport(errors, warnings,
                    [present |-> TRUE, semantics_method |-> doc.method,
                     assets |-> doc.assets, scenarios |-> resolved_scenarios,
                     dependency |-> dependency_plan])
    /\ pc' = AfterReturn
    /\ UNCHANGED <<call, validation, PlannerLocals, RuntimeLocals, result>>

(* ---------------------------------------------------------------------- *)
(* Runtime helpers                                                        *)
(* ---------------------------------------------------------------------- *)
\* control_info.setdefault(c.id, {reliability, affects}): first one wins
RECURSIVE CollectControls(_, _, _)
CollectControls(controls, k, info) ==
    IF k > Len(controls) THEN info
    ELSE CollectControls(controls, k + 1,
            IF controls[k].id \in DOMAIN info THEN info
            ELSE info @@ (controls[k].id :>
                    [reliability |-> IF controls[k].combined_reliability # None
                                     THEN controls[k].combined_reliability ELSE Unit,
                     affects |-> IF controls[k].affects # NoStr
                                 THEN controls[k].affects ELSE "frequency"]))

RECURSIVE _collect_control_info(_, _, _)
_collect_control_info(scenarios, k, info) ==
    IF k > Len(scenarios) THEN info
    ELSE _collect_control_info(scenarios, k + 1,
            CollectControls(scenarios[k].controls, 1, info))

\* the control ids of the targets, and whether a matrix came with them
_extract_copula_targets(dependency) ==
    IF dependency.present
    THEN [target_controls |->
            [k \in 1..Len(dependency.targets) |-> dependency.targets[k].id],
          has_corr |-> TRUE, corr |-> dependency.matrix]
    ELSE [target_controls |-> <<>>, has_corr |-> FALSE, corr |-> <<>>]

\* determinant of the submatrix of m on the index sequence ix
RECURSIVE Minor(_, _, _)
Minor(m, rows, cols) ==
    IF rows = <<>> THEN 1
    ELSE LET Without(k) == [j \in 1..(Len(cols) - 1) |-> IF j < k THEN cols[j] ELSE cols[j + 1]]
             Term(k) == (IF k % 2 = 1 THEN 1 ELSE -1) * m[rows[1]][cols[k]]
                            * Minor(m, Tail(rows), Without(k))
         IN SumSeq([k \in 1..Len(cols) |-> Term(k)])

RECURSIVE SortedSeq(_)
SortedSeq(S) ==
    IF S = {} THEN <<>>
    ELSE LET lo == CHOOSE x \in S : \A y \in S : x <= y
         IN <<lo>> \o SortedSeq(S \ {lo})

\* gaussian_copula_uniforms: Cholesky, retried once with a small multiple of
\* the identity added, succeeds exactly for the positive semidefinite
\* matrices of the grid
CholeskyFactorizes(corr) ==
    LET
        \* positive semidefinite: every principal minor is non-negative
        PositiveSemidefinite(m) ==
            \A S \in SUBSET (1..Len(m)) : Minor(m, SortedSeq(S), SortedSeq(S)) >= 0
    IN
        PositiveSemidefinite(corr)

RedScale == EffScale * CovScale

\* per-trial multipliers of one scenario, as numerators over RedScale^k for
\* the k controls of the kind
\* the reduction without the coverage
RECURSIVE MultiplierProduct_CoverageIgnored(_, _, _, _, _)
MultiplierProduct_CoverageIgnored(controls, k, states, t, kinds) ==
    IF k > Len(controls) THEN 1
    ELSE LET ctrl == controls[k]
             eff == IF ctrl.combined_implementation_effectiveness = None THEN 0
                    ELSE ctrl.combined_implementation_effectiveness
             state == IF ctrl.id \in DOMAIN states THEN states[ctrl.id][t] ELSE 1
             reduction == eff * CovScale * state
             affects == IF ctrl.affects # NoStr THEN ctrl.affects ELSE "frequency"
         IN (IF affects \in kinds THEN RedScale - reduction ELSE RedScale)
            * MultiplierProduct_CoverageIgnored(controls, k + 1, states, t, kinds)

\* a control that affects both enters the frequency product only
RECURSIVE MultiplierProduct_BothIsFrequency(_, _, _, _, _)
MultiplierProduct_BothIsFrequency(controls, k, states, t, kinds) ==
    IF k > Len(controls) THEN 1
    ELSE LET ctrl == controls[k]
             eff == IF ctrl.combined_implementation_effectiveness = None THEN 0
                    ELSE ctrl.combined_implementation_effectiveness
             cov == IF ctrl.combined_coverage_value # None
                    THEN ctrl.combined_coverage_value ELSE CovScale
             state == IF ctrl.id \in DOMAIN states THEN states[ctrl.id][t] ELSE 1
             reduction == eff * cov * state
             affects == IF ctrl.affects \in {NoStr, "both"} THEN "frequency" ELSE ctrl.affects
         IN (IF affects \in kinds THEN RedScale - reduction ELSE RedScale)
            * MultiplierProduct_BothIsFrequency(controls, k + 1, states, t, kinds)

\* the reduction added to 1 instead of taken from it
RECURSIVE MultiplierProduct_Boosts(_, _, _, _, _)
MultiplierProduct_Boosts(controls, k, states, t, kinds) ==
    IF k > Len(controls) THEN 1
    ELSE LET ctrl == controls[k]
             eff == IF ctrl.combined_implementation_effectiveness = None THEN 0
                    ELSE ctrl.combined_implementation_effectiveness
             cov == IF ctrl.combined_coverage_value # None
                    THEN ctrl.combined_coverage_value ELSE CovScale
             state == IF ctrl.id \in DOMAIN states THEN states[ctrl.id][t] ELSE 1
             reduction == eff * cov * state
             affects == IF ctrl.affects # NoStr THEN ctrl.affects ELSE "frequency"
         IN (IF affects \in kinds THEN RedScale + reduction ELSE RedScale)
            * MultiplierProduct_Boosts(controls, k + 1, states, t, kinds)

RECURSIVE MultiplierProduct(_, _, _, _, _)
MultiplierProduct(controls, k, states, t, kinds) ==
    IF k > Len(controls) THEN 1
    ELSE LET ctrl == controls[k]
             eff == IF ctrl.combined_implementation_effectiveness = None THEN 0
                    ELSE ctrl.combined_implementation_effectiveness
             cov == IF ctrl.combined_coverage_value # None
                    THEN ctrl.combined_coverage_value ELSE CovScale
             state == IF ctrl.id \in DOMAIN states THEN states[ctrl.id][t] ELSE 1
             reduction == eff * cov * state
             affects == IF ctrl.affects # NoStr THEN ctrl.affects ELSE "frequency"
         IN (IF affects \in kinds THEN RedScale - reduction ELSE RedScale)
            * MultiplierProduct(controls, k + 1, states, t, kinds)

_control_multipliers_for_scenario(sc, states, n_runs) ==
    [freq_mult |-> [t \in 1..n_runs |->
                      MultiplierProduct(sc.controls, 1, states, t, {"frequency", "both"})],
     sev_mult |-> [t \in 1..n_runs |->
                      MultiplierProduct(sc.controls, 1, states, t, {"severity", "both"})],
     scale |-> Pow(RedScale, Len(sc.controls))]

(* ---------------------------------------------------------------------- *)
(* Engine: frequency, severity and run_monte_carlo                        *)
(* ---------------------------------------------------------------------- *)
\* an outcome of a call: the exception it raised, or the value it returned
Raised(exc) == [raised |-> exc, value |-> <<>>]
Returned(v) == [raised |-> NoStr, value |-> v]

Zeros(n) == [t \in 1..n |-> 0]
Positive(q) == q.given /\ q.value > 0

\* the counts FrequencyEngine.generate_frequency can return when it is
\* called with the given keywords and without uniforms
generate_frequency(freq_model, params, n_runs, cardinality, keywords) ==
    LET
        \* the parameters the signature of generate_frequency declares
        FrequencyKeywords == {"freq_model", "params", "n_runs", "cardinality", "seed", "uniforms"}
    IN
        LET Sampled == {Returned(c) : c \in [1..n_runs -> 0..MaxCount]}
            Degenerate == {Returned(Zeros(n_runs))}
        IN IF ~(keywords \subseteq FrequencyKeywords) THEN {Raised("TypeError")}
           ELSE IF freq_model = "poisson"
           THEN IF Positive(params.lambda_) THEN Sampled ELSE Degenerate
           ELSE IF freq_model = "gamma"
           THEN IF ~({"shape", "scale"} \subseteq params.attrs) THEN {Raised("AttributeError")}
                ELSE IF Positive(params.shape) /\ Positive(params.scale)
                     THEN Sampled ELSE Degenerate
           ELSE IF freq_model = "hierarchical_gamma_poisson"
           THEN IF (params.alpha_base.given => params.alpha_base.value > 0)
                    /\ (params.beta_base.given => params.beta_base.value > 0)
                THEN Sampled ELSE Degenerate
           ELSE Degenerate

SeveritySamples(total_events) == {Returned(v) : v \in [1..total_events -> 1..MaxLoss]}

\* lines 72-121; the currency conversion scales by a positive rate
LognormalSeverity(params, total_events) ==
    IF params.single_losses # NoStr
    THEN IF params.single_losses = "calibrates" THEN SeveritySamples(total_events)
         ELSE {Returned(Zeros(total_events))}
    ELSE IF params.median.given /\ params.mu.given THEN {Raised("ValueError")}
    ELSE IF params.median.given /\ params.median.value <= 0 THEN {Raised("ValueError")}
    ELSE IF ~params.median.given /\ ~params.mu.given THEN {Raised("ValueError")}
    ELSE IF ~params.sigma.given \/ params.sigma.value = 0 THEN {Raised("ValueError")}
    ELSE IF params.sigma.value <= 0 THEN {Raised("ValueError")}
    ELSE SeveritySamples(total_events)

\* lines 123-134
GammaSeverity(params, total_events) ==
    IF Positive(params.shape) /\ Positive(params.scale)
    THEN SeveritySamples(total_events) ELSE {Returned(Zeros(total_events))}

\* the severities SeverityEngine.generate_severity can return when it is
\* called with the given keywords; of a mixture only the first component
\* is sampled
generate_severity(sev_model, params, components, total_events, keywords) ==
    LET
        \* the parameters the signature of generate_severity declares
        SeverityKeywords == {"sev_model", "params", "components", "total_events", "fx_config"}
    IN
        IF ~(keywords \subseteq SeverityKeywords) THEN {Raised("TypeError")}
        ELSE IF total_events <= 0 THEN {Returned(<<>>)}
        ELSE IF sev_model = "lognormal" THEN LognormalSeverity(params, total_events)
        ELSE IF sev_model = "gamma" THEN GammaSeverity(params, total_events)
        ELSE IF sev_model = "mixture"
        THEN IF components = <<>> THEN {Returned(Zeros(total_events))}
             ELSE IF components[1].kind = "lognormal"
             THEN LognormalSeverity(components[1].params, total_events)
             ELSE IF components[1].kind = "gamma"
             THEN GammaSeverity(components[1].params, total_events)
             ELSE {Returned(Zeros(total_events))}
        ELSE {Returned(Zeros(total_events))}

\* every trial sums its severities from the start of the vector
_aggregate_severities_by_count_Restart(counts, severities) ==
    [i \in 1..Len(counts) |->
        IF counts[i] > 0 THEN SumSeq(SubSeq(severities, 1, counts[i])) ELSE 0]

\* lines 158-167: the loop over counts; current_idx counts the severities
\* consumed so far (slices are 0-based and half-open in the source)
_aggregate_severities_by_count(counts, severities) ==
    LET RECURSIVE loop(_, _, _)
        loop(k, current_idx, losses) ==
            IF k > Len(counts) THEN losses
            ELSE LET c == counts[k]
                 IN IF c > 0
                    THEN loop(k + 1, current_idx + c,
                              Append(losses, SumSeq(SubSeq(severities, current_idx + 1,
                                                           current_idx + c))))
                    ELSE loop(k + 1, current_idx, Append(losses, 0))
    IN loop(1, 0, <<>>)

\* a multiplier argument: None, a scalar, an array of numbers, or a value
\* numpy cannot convert to an array of floats (a ragged list, a string)
NoMultiplier == [kind |-> "none", values |-> <<>>]
Scalar(v) == [kind |-> "scalar", values |-> <<v>>]
Array(vs) == [kind |-> "array", values |-> vs]

\* error: the shape is not (n_runs,); raised: np.asarray failed
_coerce_multiplier(multiplier, n_runs) ==
    IF multiplier.kind = "none"
    THEN [raised |-> NoStr, error |-> FALSE, value |-> NoMultiplier]
    ELSE IF multiplier.kind = "scalar"
    THEN [raised |-> NoStr, error |-> FALSE, value |-> multiplier]
    ELSE IF multiplier.kind = "unconvertible"
    THEN [raised |-> "ValueError", error |-> FALSE, value |-> NoMultiplier]
    ELSE IF Len(multiplier.values) # n_runs
    THEN [raised |-> NoStr, error |-> TRUE, value |-> NoMultiplier]
    ELSE [raised |-> NoStr, error |-> FALSE, value |-> multiplier]

_validate_supported_models(frequency_model, severity_model) ==
    IF frequency_model \notin {"poisson", "gamma", "hierarchical_gamma_poisson"}
    THEN "unsupported_frequency_model"
    ELSE IF severity_model \notin {"lognormal", "gamma", "mixture"}
    THEN "unsupported_severity_model"
    ELSE NoStr

\* the outcomes of _simulate_annual_losses: the per-run losses, or the
\* exception of one of its calls
_simulate_annual_losses(n_runs, cardinality, freq, sev, severity_loss_multiplier) ==
    LET
        Times(losses, multiplier) ==
            IF multiplier.kind = "none" THEN losses
            ELSE IF multiplier.kind = "scalar"
            THEN [t \in 1..Len(losses) |-> losses[t] * multiplier.values[1]]
            ELSE [t \in 1..Len(losses) |-> losses[t] * multiplier.values[t]]
        \* the keywords _simulate_annual_losses passes to the two engines
        FrequencyCall == {"freq_model", "params", "n_runs", "cardinality", "seed", "uniforms",
                          "rate_multiplier"}
        SeverityCall == {"sev_model", "params", "components", "total_events", "fx_config", "seed"}
    IN
        UNION {IF f.raised # NoStr THEN {Raised(f.raised)}
               ELSE LET counts == f.value
                        total_events == SumSeq(counts)
                    IN IF total_events <= 0 THEN {Returned(Zeros(n_runs))}
                       ELSE {IF v.raised # NoStr THEN Raised(v.raised)
                             ELSE Returned(Times(_aggregate_severities_by_count(counts, v.value),
                                                 severity_loss_multiplier)) :
                                v \in generate_severity(sev.model, sev.parameters, sev.components,
                                                        total_events, SeverityCall)} :
                f \in generate_frequency(freq.model, freq.parameters, n_runs, cardinality,
                                         FrequencyCall)}

Failure(msg) == [raised |-> NoStr, success |-> FALSE, errors |-> <<msg>>, losses |-> <<>>]
\* an exception that leaves run_monte_carlo
Escaped(exc) == [raised |-> exc, success |-> FALSE, errors |-> <<>>, losses |-> <<>>]

\* the results run_monte_carlo can return for a scenario document; the
\* multipliers are coerced outside the try block of lines 385-409
run_monte_carlo(yaml_content, n_runs, cardinality, frequency_rate_multiplier, severity_loss_multiplier) ==
    LET scenario == yaml_content.scenario
        freq_mult == _coerce_multiplier(frequency_rate_multiplier, n_runs)
        sev_mult == _coerce_multiplier(severity_loss_multiplier, n_runs)
        unsupported == _validate_supported_models(scenario.frequency.model,
                                                  scenario.severity.model)
    IN IF ~yaml_content.parses THEN {Failure("parsing_error")}
       ELSE IF freq_mult.raised # NoStr THEN {Escaped(freq_mult.raised)}
       ELSE IF freq_mult.error THEN {Failure("frequency_rate_multiplier_shape")}
       ELSE IF sev_mult.raised # NoStr THEN {Escaped(sev_mult.raised)}
       ELSE IF sev_mult.error THEN {Failure("severity_loss_multiplier_shape")}
       ELSE IF unsupported # NoStr THEN {Failure(unsupported)}
       ELSE {IF o.raised # NoStr THEN Failure("simulation_execution_error")
             ELSE [raised |-> NoStr, success |-> TRUE, errors |-> <<>>, losses |-> o.value] :
                o \in _simulate_annual_losses(n_runs, cardinality, scenario.frequency,
                                              scenario.severity, sev_mult.value)}

(* ---------------------------------------------------------------------- *)
(* Runtime: aggregation                                                   *)
(* ---------------------------------------------------------------------- *)
\* the first entry instead of the largest
MaxSeq_First(s) == s[1]

RECURSIVE MaxSeq(_)
MaxSeq(s) == IF Len(s) = 1 THEN s[1] ELSE Max2(Head(s), MaxSeq(Tail(s)))

\* every scenario, whatever its probability
Pickable_Any(w) == 1..Len(w)

\* the scenarios rng.choice can pick: those of positive probability
Pickable(w) == {k \in 1..Len(w) : w[k] > 0}

\* the portfolio loss vectors _aggregate_portfolio_losses can return;
\* error is set when it raises ValueError
_aggregate_portfolio_losses(semantics, scenario_losses_, scenario_weights_, n_runs) ==
    LET
        \* the weights rng.choice is given, before the division by their sum:
        \* all ones when a weight is missing (NaN) or the sum is not positive
        ChoiceWeights ==
            LET n == Len(scenario_weights_)
                ones == [k \in 1..n |-> 1]
            IN IF \E k \in 1..n : scenario_weights_[k].nan THEN ones
               ELSE IF SumSeq([k \in 1..n |-> scenario_weights_[k].value]) <= 0 THEN ones
               ELSE [k \in 1..n |-> scenario_weights_[k].value]
    IN
        LET n == Len(scenario_losses_)
            column(t) == [k \in 1..n |-> scenario_losses_[k][t]]
            w == ChoiceWeights
        IN IF n = 0 THEN [error |-> "need_at_least_one_array", totals |-> {}]
           ELSE IF semantics = "sum"
           THEN [error |-> NoStr, totals |-> {[t \in 1..n_runs |-> SumSeq(column(t))]}]
           ELSE IF semantics = "max"
           THEN [error |-> NoStr, totals |-> {[t \in 1..n_runs |-> MaxSeq(column(t))]}]
           ELSE IF semantics \in {"mixture", "choose_one"}
           THEN IF \E k \in 1..n : w[k] < 0
                THEN [error |-> "negative_probabilities", totals |-> {}]
                ELSE [error |-> NoStr,
                      totals |-> {[t \in 1..n_runs |-> scenario_losses_[pick[t]][t]] :
                                    pick \in [1..n_runs -> Pickable(w)]}]
           ELSE [error |-> "unsupported_semantics", totals |-> {}]

_portfolio_error_result(msg) ==
    [returned |-> TRUE, raised |-> NoStr, success |-> FALSE, errors |-> <<msg>>,
     has_metrics |-> FALSE, total |-> <<>>]

(* ---------------------------------------------------------------------- *)
(* run_portfolio_simulation, step by step                                 *)
(* ---------------------------------------------------------------------- *)
plan == report.plan

\* a seed handed to a random draw of the run; None when the run has no seed
Draw(draw, index, seed) == [draw |-> draw, index |-> index, seed |-> seed]
\* line 301: None if seed is None else int(seed + idx * 1000)
scenario_seed(seed, index) == IF seed = None THEN None ELSE seed + index * 1000

\* lines 430-439
RunCheck ==
    /\ pc = "run_check"
    /\ IF ~report.ok \/ ~plan.present
       THEN /\ result' = [returned |-> TRUE, raised |-> NoStr, success |-> FALSE,
                          errors |-> [k \in 1..Len(report.errors) |-> report.errors[k].kind],
                          has_metrics |-> FALSE, total |-> <<>>]
            /\ pc' = "done"
       ELSE IF plan.scenarios = <<>>
       THEN /\ result' = _portfolio_error_result("no_scenarios")
            /\ pc' = "done"
       ELSE /\ pc' = "sample_controls"
            /\ result' = result
    /\ idx' = 0
    /\ UNCHANGED <<call, validation, errors, warnings, catalog_ids, assessment_by_id,
                   portfolio_controls_by_id, dependency_plan, resolved_scenarios,
                   report, RuntimeLocals>>

\* lines 441-449: _sample_control_state, outside any try block
SampleControlState ==
    LET
        \* the states a control of reliability rel can be sampled in over n trials:
        \* state = (u <= rel) for a uniform u of [0,1), u taken on the half-steps
        \* of the probability grid
        StateVectors(rel, n) ==
            {v \in [1..n -> {0, 1}] : \A t \in 1..n : \E u \in 0..(2 * Unit - 1) : v[t] = IF u <= 2 * rel THEN 1 ELSE 0}
    IN
        /\ pc = "sample_controls"
        /\ LET control_info == _collect_control_info(plan.scenarios, 1, <<>>)
               ext == _extract_copula_targets(plan.dependency)
               Rel(cid) == IF cid \in DOMAIN control_info
                           THEN control_info[cid].reliability ELSE Unit
               Samples(ids) ==
                   {f \in [ids -> [1..call.n_runs -> {0, 1}]] :
                        \A cid \in ids : f[cid] \in StateVectors(Rel(cid), call.n_runs)}
           IN IF ext.target_controls # <<>> /\ ext.has_corr
              THEN IF CholeskyFactorizes(ext.corr)
                   THEN /\ control_state' \in Samples(Range(ext.target_controls))
                        /\ pc' = "run_scenarios"
                        /\ result' = result
                   ELSE /\ result' = [NoResult EXCEPT !.raised = "LinAlgError"]
                        /\ pc' = "raised"
                        /\ control_state' = control_state
              ELSE /\ control_state' \in Samples(DOMAIN control_info)
                   /\ pc' = "run_scenarios"
                   /\ result' = result
        \* lines 152 and 156: the generator and the copula are given the base seed
        /\ seeds' = Append(seeds, Draw("control_state", 0, call.seed))
        /\ UNCHANGED <<call, validation, PlannerLocals, report, multipliers, scenario_losses,
                       scenario_weights>>

\* the control states are drawn again when a scenario is run
RunScenario_Resamples ==
    /\ pc = "run_scenarios"
    /\ idx < Len(plan.scenarios)
    /\ control_state' = [cid \in DOMAIN control_state |->
                            [t \in 1..call.n_runs |-> 1 - control_state[cid][t]]]
    /\ LET sc == plan.scenarios[idx + 1]
           mult == _control_multipliers_for_scenario(sc, control_state', call.n_runs)
       IN /\ multipliers' = Append(multipliers, mult)
          /\ seeds' = Append(seeds, Draw("scenario", idx, scenario_seed(call.seed, idx)))
          /\ \E res \in run_monte_carlo([parses |-> TRUE, scenario |-> sc.model],
                                        call.n_runs, sc.cardinality,
                                        Array(mult.freq_mult), Array(mult.sev_mult)) :
                IF ~res.success
                THEN /\ result' = _portfolio_error_result("scenario_failed")
                     /\ pc' = "done"
                     /\ UNCHANGED <<idx, scenario_losses, scenario_weights>>
                ELSE /\ scenario_losses' = Append(scenario_losses, res.losses)
                     /\ scenario_weights' = Append(scenario_weights,
                           IF sc.weight.given THEN [nan |-> FALSE, value |-> sc.weight.value]
                           ELSE [nan |-> TRUE, value |-> 0])
                     /\ idx' = idx + 1
                     /\ UNCHANGED <<pc, result>>
    /\ UNCHANGED <<call, validation, errors, warnings, catalog_ids, assessment_by_id,
                   portfolio_controls_by_id, dependency_plan, resolved_scenarios,
                   report>>

\* a failed scenario is skipped and the next one is run
RunScenario_SkipsFailure ==
    /\ pc = "run_scenarios"
    /\ idx < Len(plan.scenarios)
    /\ LET sc == plan.scenarios[idx + 1]
           mult == _control_multipliers_for_scenario(sc, control_state, call.n_runs)
       IN /\ multipliers' = Append(multipliers, mult)
          /\ seeds' = Append(seeds, Draw("scenario", idx, scenario_seed(call.seed, idx)))
          /\ \E res \in run_monte_carlo([parses |-> TRUE, scenario |-> sc.model],
                                        call.n_runs, sc.cardinality,
                                        Array(mult.freq_mult), Array(mult.sev_mult)) :
                IF ~res.success
                THEN /\ idx' = idx + 1
                     /\ UNCHANGED <<pc, result, scenario_losses, scenario_weights>>
                ELSE /\ scenario_losses' = Append(scenario_losses, res.losses)
                     /\ scenario_weights' = Append(scenario_weights,
                           IF sc.weight.given THEN [nan |-> FALSE, value |-> sc.weight.value]
                           ELSE [nan |-> TRUE, value |-> 0])
                     /\ idx' = idx + 1
                     /\ UNCHANGED <<pc, result>>
    /\ UNCHANGED <<call, validation, errors, warnings, catalog_ids, assessment_by_id,
                   portfolio_controls_by_id, dependency_plan, resolved_scenarios,
                   report, control_state>>

\* lines 338-348 with 292-323: one scenario of the plan; its ValueError and
\* RuntimeError are caught at line 459
RunScenario ==
    /\ pc = "run_scenarios"
    /\ idx < Len(plan.scenarios)
    /\ LET sc == plan.scenarios[idx + 1]
           mult == _control_multipliers_for_scenario(sc, control_state, call.n_runs)
       IN /\ multipliers' = Append(multipliers, mult)
          /\ seeds' = Append(seeds, Draw("scenario", idx, scenario_seed(call.seed, idx)))
          /\ \E res \in run_monte_carlo([parses |-> TRUE, scenario |-> sc.model],
                                        call.n_runs, sc.cardinality,
                                        Array(mult.freq_mult), Array(mult.sev_mult)) :
                IF ~res.success
                THEN /\ result' = _portfolio_error_result("scenario_failed")
                     /\ pc' = "done"
                     /\ UNCHANGED <<idx, scenario_losses, scenario_weights>>
                ELSE /\ scenario_losses' = Append(scenario_losses, res.losses)
                     /\ scenario_weights' = Append(scenario_weights,
                           IF sc.weight.given THEN [nan |-> FALSE, value |-> sc.weight.value]
                           ELSE [nan |-> TRUE, value |-> 0])
                     /\ idx' = idx + 1
                     /\ UNCHANGED <<pc, result>>
    /\ UNCHANGED <<call, validation, errors, warnings, catalog_ids, assessment_by_id,
                   portfolio_controls_by_id, dependency_plan, resolved_scenarios,
                   report, control_state>>

\* lines 462-489: the aggregation of the scenario losses, reached after the
\* last scenario of a plan or with the loss vectors of a call
Aggregate ==
    /\ \/ pc = "run_scenarios" /\ idx = Len(plan.scenarios)
       \/ pc = "aggregate"
    /\ LET semantics == IF pc = "aggregate" THEN call.args.semantics
                        ELSE plan.semantics_method
           agg == _aggregate_portfolio_losses(semantics, scenario_losses,
                                              scenario_weights, call.n_runs)
       IN /\ IF agg.error # NoStr
             THEN result' = _portfolio_error_result(agg.error)
             ELSE \E total \in agg.totals :
                     result' = [returned |-> TRUE, raised |-> NoStr, success |-> TRUE,
                                errors |-> <<>>, has_metrics |-> TRUE, total |-> total]
          \* line 253: the generator of the pick is given the base seed
          /\ seeds' = IF semantics \in {"mixture", "choose_one"} /\ scenario_losses # <<>>
                       THEN Append(seeds, Draw("aggregate", 0, call.seed)) ELSE seeds
    /\ pc' = "done"
    /\ UNCHANGED <<call, validation, PlannerLocals, report, control_state, multipliers,
                   scenario_losses, scenario_weights>>

\* engine.py lines 285-410: run_monte_carlo on a scenario document
RunMonteCarlo ==
    /\ pc = "run_monte_carlo"
    /\ \E res \in run_monte_carlo(call.args.yaml_content, call.n_runs, 1,
                                  call.args.frequency_rate_multiplier,
                                  call.args.severity_loss_multiplier) :
          IF res.raised # NoStr
          THEN /\ result' = [NoResult EXCEPT !.raised = res.raised]
               /\ pc' = "raised"
          ELSE /\ result' = [returned |-> TRUE, raised |-> NoStr, success |-> res.success,
                             errors |-> res.errors, has_metrics |-> res.success,
                             total |-> res.losses]
               /\ pc' = "done"
    /\ UNCHANGED <<call, validation, PlannerLocals, report, RuntimeLocals>>

\* severity.py lines 46-181: SeverityEngine.generate_severity on the severity
\* model of a call, for call.n_runs events
GenerateSeverity ==
    /\ pc = "generate_severity"
    /\ LET sev == call.args.yaml_content.scenario.severity
       IN \E o \in generate_severity(sev.model, sev.parameters, sev.components, call.n_runs,
                                      {"sev_model", "params", "components", "total_events",
                                       "fx_config"}) :
             IF o.raised # NoStr
             THEN /\ result' = [NoResult EXCEPT !.raised = o.raised]
                  /\ pc' = "raised"
             ELSE /\ result' = [returned |-> TRUE, raised |-> NoStr, success |-> TRUE,
                                errors |-> <<>>, has_metrics |-> FALSE, total |-> o.value]
                  /\ pc' = "done"
    /\ UNCHANGED <<call, validation, PlannerLocals, report, RuntimeLocals>>

\* engine.py lines 147-167: _aggregate_severities_by_count on the counts and
\* severities of a call
AggregateSeverities ==
    /\ pc = "aggregate_severities"
    /\ result' = [returned |-> TRUE, raised |-> NoStr, success |-> TRUE, errors |-> <<>>,
                  has_metrics |-> FALSE,
                  total |-> _aggregate_severities_by_count(call.args.counts,
                                                           call.args.severities)]
    /\ pc' = "done"
    /\ UNCHANGED <<call, validation, PlannerLocals, report, RuntimeLocals>>

(* ---------------------------------------------------------------------- *)
(* Validator: _portfolio_semantic_checks on a parsed portfolio document   *)
(* ---------------------------------------------------------------------- *)
ValidationMessage(level, path, kind) == [level |-> level, path |-> path, kind |-> kind]

Distinct(s) == Cardinality(Range(s)) = Len(s)

\* the check of the weights without the sum
WeightMessages_MissingOnly(method, scenarios) ==
    IF method \notin {"mixture", "choose_one"} THEN <<>>
    ELSE IF \E k \in 1..Len(scenarios) : ~scenarios[k].weight.given
         THEN <<ValidationMessage("error", "portfolio -> scenarios", "missing_weight")>>
         ELSE <<>>

\* lines 814-850: every reference has a weight and the weights sum to 1.0
\* within 1e-9 (on the grid of the model: the sum is Unit)
WeightMessages(method, scenarios) ==
    IF method \notin {"mixture", "choose_one"} THEN <<>>
    ELSE LET n == Len(scenarios)
             weight_sum == SumSeq([k \in 1..n |-> IF scenarios[k].weight.given
                                                  THEN scenarios[k].weight.value ELSE 0])
         IN (IF \E k \in 1..n : ~scenarios[k].weight.given
             THEN <<ValidationMessage("error", "portfolio -> scenarios", "missing_weight")>>
             ELSE <<>>)
            \o (IF weight_sum # Unit
                THEN <<ValidationMessage("error", "portfolio -> scenarios -> weight", "weight_sum")>>
                ELSE <<>>)

\* the documents of the model set no semantics.constraints and no
\* relationships, so the checks of lines 708-811 and 852-885 add nothing
_portfolio_semantic_checks(data) ==
    LET
        \* lines 618-647: control ids are unique
        ControlIdMessages(controls) ==
            IF Distinct([k \in 1..Len(controls) |-> controls[k].id]) THEN <<>>
            ELSE <<ValidationMessage("error", "portfolio -> controls -> id", "unique")>>
        \* lines 659-705: scenario ids and scenario paths are unique
        ScenarioIdMessages(scenarios) ==
            (IF Distinct([k \in 1..Len(scenarios) |-> scenarios[k].id]) THEN <<>>
             ELSE <<ValidationMessage("error", "portfolio -> scenarios -> id", "unique")>>)
            \o (IF Distinct([k \in 1..Len(scenarios) |-> scenarios[k].path]) THEN <<>>
                ELSE <<ValidationMessage("error", "portfolio -> scenarios -> path", "unique")>>)
    IN
        ControlIdMessages(data.controls)
        \o ScenarioIdMessages(data.scenarios)
        \o WeightMessages(data.method, data.scenarios)

PortfolioSemanticChecks ==
    /\ pc = "semantic_checks"
    /\ validation' = [returned |-> TRUE, messages |-> _portfolio_semantic_checks(doc)]
    /\ pc' = "done"
    /\ UNCHANGED <<call, PlannerLocals, report, RuntimeLocals, result>>

(* ---------------------------------------------------------------------- *)
(* The calls of the model                                                 *)
(* ---------------------------------------------------------------------- *)
DefaultRef ==
    ScenarioRef("s1", "ok", "per_organization_per_year", NoBinding, <<>>, SupportedScenario)

BaseDoc ==
    [wellformed |-> TRUE, assets |-> <<Asset("a1", 1, "t1")>>, controls |-> <<>>,
     catalogs |-> <<>>, assessments |-> <<>>, scenarios |-> <<DefaultRef>>,
     method |-> "sum", copula |-> NoCopula]

FullEntry(id) == InvEntry(id, Unit, Unit, "b1", 1, "both")

Call(entry, kind, load, d, n) ==
    LET
        NoArgs == [semantics |-> NoStr]
    IN
        [entry |-> entry, source_kind |-> kind, load |-> load, doc |-> d, n_runs |-> n,
         seed |-> None, args |-> NoArgs]

FileDocs ==
    LET
        Files == {"missing", "invalid", "ok"}
        \* documents that differ in their pack files, their scenario file and
        \* their validity against the schema
        CatalogChoices ==
            {<<>>, <<CatalogPack("missing", {})>>, <<CatalogPack("invalid", {})>>,
             <<CatalogPack("ok", {"c1"})>>}
        AssessmentChoices ==
            {<<>>, <<AssessmentPack("missing", <<>>)>>, <<AssessmentPack("invalid", <<>>)>>,
             <<AssessmentPack("ok", <<FullEntry("c1")>>)>>,
             <<AssessmentPack("ok", <<FullEntry("c1")>>), AssessmentPack("ok", <<FullEntry("c1")>>)>>}
    IN
        {[BaseDoc EXCEPT !.wellformed = w, !.catalogs = c, !.assessments = a,
                         !.controls = pc_, !.scenarios = <<[DefaultRef EXCEPT !.file = f]>>] :
            w \in BOOLEAN, c \in CatalogChoices, a \in AssessmentChoices,
            pc_ \in {<<>>, <<FullEntry("c2")>>}, f \in Files}

\* documents with the given scenarios whose copula is a matrix over the
\* first d controls, well formed or (when broken is asked for) not
CopulaDocs(scenarios, broken) ==
    LET
        Identity(d) == [i \in 1..d |-> [j \in 1..d |-> IF i = j THEN CorrScale ELSE 0]]
        AllControls == [k \in 1..MaxTargets |-> FullEntry(ControlIdPool[k])]
        AllTargets(d) == [k \in 1..d |-> StateRef(ControlIdPool[k])]
        \* symmetric, unit diagonal, the entries off the diagonal -1, 0 or 1
        SignMatrices(d) ==
            LET above == {p \in (1..d) \X (1..d) : p[1] < p[2]}
            IN {[i \in 1..d |-> [j \in 1..d |->
                    IF i = j THEN CorrScale
                    ELSE IF i < j THEN f[<<i, j>>] ELSE f[<<j, i>>]]] :
                        f \in [above -> {-CorrScale, 0, CorrScale}]}
        \* the identity with one entry replaced, or of another size
        BrokenMatrices(d) ==
            {[Identity(d) EXCEPT ![i][j] = v] :
                i \in 1..d, j \in 1..d,
                v \in {-CorrScale - 1, -CorrScale, 1, CorrScale, CorrScale + 1}}
            \cup {Identity(d + 1), SubSeq(Identity(d + 1), 1, d), Identity(d) \o <<<<>>>>}
    IN
        UNION {{[BaseDoc EXCEPT !.controls = AllControls, !.scenarios = scenarios,
                                !.copula = MatrixCopula(AllTargets(d), m)] :
                    m \in SignMatrices(d) \cup (IF broken THEN BrokenMatrices(d) ELSE {})} :
                d \in 1..MaxTargets}

WeightDocs ==
    LET
        Weight(v) == [given |-> TRUE, value |-> v]
        \* documents that differ in the weights, ids and paths of their references
        WeightChoices == {NoWeight} \cup {Weight(v) : v \in 0..Unit}
        WeightRefs(id) ==
            {[DefaultRef EXCEPT !.id = id, !.path = p, !.weight = w] :
                p \in {"s1", "s2"}, w \in WeightChoices}
    IN
        {[BaseDoc EXCEPT !.controls = cs, !.scenarios = rs, !.method = m] :
            cs \in {<<>>, <<FullEntry("c1"), FullEntry("c1")>>},
            rs \in {<<r>> : r \in WeightRefs("s1")}
                    \cup {<<r1, r2>> : r1 \in WeightRefs("s1"),
                                       r2 \in WeightRefs("s1") \cup WeightRefs("s2")},
            m \in Methods}

PlanDocs ==
    LET
        AssetNames == {AssetNamePool[i] : i \in 1..MaxAssets}
        \* documents that differ in their assets and in the binding of one scenario
        AssetChoices(k) ==
            {Asset(AssetNamePool[k], c, t) :
                c \in 1..MaxCard, t \in IF k = 1 THEN {"t1"} ELSE {NoStr, "t1", "t2"}}
        AssetLists ==
            UNION {{s \in [1..n -> UNION {AssetChoices(k) : k \in 1..MaxAssets}] :
                        \A k \in 1..n : s[k] \in AssetChoices(k)} : n \in 0..MaxAssets}
        Bindings ==
            {NoBinding} \cup
            {Binding(names) : names \in SeqsUpTo(AssetNames \cup {UnknownAsset}, MaxAssets)}
        BindingDocs ==
            {[BaseDoc EXCEPT !.assets = assets,
                             !.scenarios = <<[DefaultRef EXCEPT !.basis = basis, !.binding = b]>>] :
                assets \in AssetLists, basis \in Bases, b \in Bindings}
        \* documents that differ in the numbers of one control
        NumericDocs ==
            {[BaseDoc EXCEPT
                !.controls = <<InvEntry("c1", eff, cov, "b1", rel, "frequency")>>,
                !.scenarios = <<[DefaultRef EXCEPT
                                    !.controls = <<ObjectControl("c1", ef, cf, "b1", pf)>>]>>] :
                eff \in OptProb, cov \in OptProb, rel \in OptProb,
                ef \in OptProb, cf \in OptProb, pf \in OptProb}
        \* documents that differ in where the inventory of one control comes from
        PortfolioEntries ==
            {InvEntry("c1", eff, cov, "b1", rel, aff) :
                eff \in {None, 1}, cov \in {None, Unit}, rel \in {None, 1},
                aff \in Affects \cup {NoStr}}
        AssessmentEntries ==
            {InvEntry("c1", eff, cov, "b2", rel, aff) :
                eff \in {None, Unit}, cov \in {None, 1}, rel \in {None, Unit},
                aff \in Affects \cup {NoStr}}
        PrecedenceDocs ==
            {[BaseDoc EXCEPT
                !.controls = p, !.assessments = a,
                !.scenarios = <<[DefaultRef EXCEPT !.controls = <<c>>]>>] :
                p \in {<<>>} \cup {<<e>> : e \in PortfolioEntries},
                a \in {<<>>} \cup {<<AssessmentPack("ok", <<e>>)>> : e \in AssessmentEntries},
                c \in {PlainControl("c1"), ObjectControl("c1", None, Unit, "b1", None)}}
        \* documents with up to two scenario references and a copula, each of
        \* which may be defective in several ways
        DefectRefs(id) ==
            {ScenarioRef(id, f, "per_organization_per_year", NoBinding, <<>>, SupportedScenario) :
                f \in {"missing", "invalid"}}
            \cup
            {ScenarioRef(id, "ok", basis, b, cs, SupportedScenario) :
                basis \in Bases,
                b \in {NoBinding, Binding(<<UnknownAsset>>), Binding(<<>>)},
                cs \in {<<>>, <<PlainControl(UnknownControl)>>,
                         <<PlainControl(UnknownControl), PlainControl("c1")>>,
                         <<PlainControl(UnknownControl), PlainControl("c2")>>}}
        DefectCopulas ==
            {NoCopula,
             MatrixCopula(<<StateRef("c1")>>, <<<<0>>>>),
             MatrixCopula(<<Target("asset:", "c1", ":state")>>, <<<<0>>>>),
             MatrixCopula(<<StateRef(UnknownControl)>>, <<<<0>>>>)}
        DefectDocs ==
            {[BaseDoc EXCEPT !.controls = <<FullEntry("c1")>>, !.scenarios = <<r1, r2>>,
                             !.copula = cop] :
                r1 \in DefectRefs("s1"), r2 \in DefectRefs("s2"), cop \in DefectCopulas}
        \* documents that differ in their copula
        TargetPool ==
            {StateRef("c1"), StateRef("c2"), StateRef(UnknownControl),
             Target("asset:", "c1", ":state"), Target("control:", "", ":state")}
        TargetLists == SeqsUpTo(TargetPool, MaxTargets) \ {<<>>}
        CopulaInventory == [BaseDoc EXCEPT
                                !.controls = <<FullEntry("c1")>>,
                                !.assessments = <<AssessmentPack("ok", <<FullEntry("c2")>>)>>]
        TargetDocs ==
            {[CopulaInventory EXCEPT !.copula = ToeplitzCopula(ts, r[1], r[2])] :
                ts \in TargetLists,
                r \in {<<FALSE, 0>>, <<TRUE, -Unit>>, <<TRUE, 1>>, <<TRUE, Unit>>}}
            \cup
            \* copulas over two controls that give any of structure, rho and matrix
            {[CopulaInventory EXCEPT !.copula =
                    [present |-> TRUE, targets |-> <<StateRef("c2"), StateRef("c1")>>,
                     has_matrix |-> m # <<>>, matrix |-> m,
                     structure |-> st, has_rho |-> r[1], rho |-> r[2]]] :
                m \in {<<>>, <<<<CorrScale, 0>>, <<0, CorrScale>>>>,
                        <<<<CorrScale, CorrScale>>, <<CorrScale, CorrScale>>>>},
                st \in {NoStr, "toeplitz"},
                r \in {<<FALSE, 0>>, <<TRUE, 1>>}}
        \* those of them whose ids and paths are distinct
        WeightPlanDocs ==
            {d \in WeightDocs :
                /\ d.controls = <<>>
                /\ \A k \in 1..Len(d.scenarios) : d.scenarios[k].path = d.scenarios[k].id
                /\ Distinct([k \in 1..Len(d.scenarios) |-> d.scenarios[k].id])}
    IN
        FileDocs \cup BindingDocs \cup NumericDocs \cup PrecedenceDocs \cup DefectDocs
        \cup TargetDocs \cup CopulaDocs(<<DefaultRef>>, TRUE) \cup WeightPlanDocs

DirectCall(entry, n, args) ==
    [entry |-> entry, source_kind |-> "data", load |-> "ok", doc |-> BaseDoc,
     n_runs |-> n, seed |-> None, args |-> args]
AggregateCalls ==
    LET
        \* the loss vectors and weights _aggregate_portfolio_losses is called with
        WeightValues ==
            {[nan |-> TRUE, value |-> 0]} \cup {[nan |-> FALSE, value |-> v] : v \in -1..(Unit + 1)}
    IN
        UNION {{DirectCall("_aggregate_portfolio_losses", n,
                           [semantics |-> m, scenario_losses |-> ls, scenario_weights |-> ws]) :
                    m \in Methods \cup {"average"},
                    ls \in [1..k -> [1..n -> 0..MaxLoss]],
                    ws \in [1..k -> WeightValues]} :
                n \in 1..NRuns, k \in 1..MaxScenarios}

MonteCarloCalls ==
    LET
        \* a value np.asarray cannot convert to an array of floats
        Unconvertible == [kind |-> "unconvertible", values |-> <<>>]
        \* the scenario documents and multipliers run_monte_carlo is called with
        ParamValues == {NoParam, Param(-1), Param(0), Param(1)}
        FrequencyScenarios ==
            {Scenario(fm, FrequencyParameters(l, a, b), "lognormal", LognormalOne, <<>>) :
                fm \in {"poisson", "gamma", "hierarchical_gamma_poisson", "weibull"},
                l \in ParamValues, a \in ParamValues, b \in ParamValues}
        LognormalParameters ==
            {SeverityParameters(median, mu, sigma, NoParam, NoParam, sl) :
                median \in ParamValues, mu \in {NoParam, Param(0)}, sigma \in ParamValues,
                sl \in {NoStr, "calibrates", "fails"}}
        GammaParameters ==
            {SeverityParameters(NoParam, NoParam, NoParam, shape, scale, NoStr) :
                shape \in ParamValues, scale \in ParamValues}
        Components ==
            {<<>>, <<[kind |-> "pareto", params |-> LognormalOne]>>}
            \cup {<<[kind |-> "lognormal", params |-> sp]>> :
                    sp \in {q \in LognormalParameters : q.single_losses = NoStr /\ ~q.mu.given}}
            \cup {<<[kind |-> "gamma", params |-> sp]>> : sp \in GammaParameters}
        SeverityScenarios ==
            {Scenario("poisson", PoissonOne, sm, sp, <<>>) :
                sm \in {"lognormal", "gamma", "pareto"}, sp \in LognormalParameters \cup GammaParameters}
            \cup {Scenario("poisson", PoissonOne, "mixture", LognormalOne, cs) : cs \in Components}
        Multipliers(n) ==
            {NoMultiplier, Scalar(0), Scalar(1), Array(<<>>), Array(Zeros(n)), Array([t \in 1..n |-> 1]),
             Array([t \in 1..(n + 1) |-> 1]), Unconvertible}
        MonteCarloArgs(parses, scenario, fmult, smult) ==
            [semantics |-> NoStr, yaml_content |-> [parses |-> parses, scenario |-> scenario],
             frequency_rate_multiplier |-> fmult, severity_loss_multiplier |-> smult]
    IN
        UNION {{DirectCall("run_monte_carlo", n, MonteCarloArgs(TRUE, sc, NoMultiplier, NoMultiplier)) :
                    sc \in FrequencyScenarios \cup SeverityScenarios}
               \cup {DirectCall("run_monte_carlo", n, MonteCarloArgs(ok, sc, fmult, smult)) :
                        ok \in BOOLEAN, sc \in {SupportedScenario, UnsupportedScenario},
                        fmult \in Multipliers(n), smult \in Multipliers(n)} :
                n \in 1..NRuns}
        \* the severity models generate_severity is called with, for n events
        \cup {DirectCall("generate_severity", n, MonteCarloArgs(TRUE, sc, NoMultiplier, NoMultiplier)) :
                sc \in SeverityScenarios, n \in 0..NRuns}

\* the counts of the trials and the severities of their events that
\* _aggregate_severities_by_count is called with
SeverityCountCalls ==
    UNION {{DirectCall("_aggregate_severities_by_count", Len(counts),
                       [semantics |-> NoStr, counts |-> counts, severities |-> severities]) :
                severities \in [1..SumSeq(counts) -> 0..(MaxLoss + 1)]} :
            counts \in UNION {[1..n -> 0..(MaxCount + 1)] : n \in 1..NRuns}}

Calls ==
    LET
        \* sources that cannot be read or parsed
        FailedLoads ==
            ({"path"} \X {"io_error", "yaml_error", "not_mapping"})
            \cup ({"yaml"} \X {"yaml_error", "not_mapping"})
        SourceKinds == {"path", "yaml", "data"}
        \* documents whose scenarios run or fail, under each aggregation method
        RunRefs(id) ==
            {ScenarioRef(id, "ok", "per_organization_per_year", NoBinding, cs, model) :
                cs \in {<<>>, <<PlainControl("c1")>>}, model \in {SupportedScenario, UnsupportedScenario}}
        RunDocs ==
            {[BaseDoc EXCEPT !.controls = <<FullEntry("c1")>>, !.scenarios = rs, !.method = m] :
                rs \in {<<>>} \cup {<<r>> : r \in RunRefs("s1")}
                        \cup {<<r1, r2>> : r1 \in RunRefs("s1"), r2 \in RunRefs("s2")},
                m \in Methods \cup {"average"}}
        \* documents whose scenario has two controls that differ in their numbers
        \* and in what they affect
        MultiplierDocs ==
            {[BaseDoc EXCEPT
                !.controls = <<InvEntry("c1", eff1, cov1, "b1", 1, aff1),
                               InvEntry("c2", eff2, Unit, "b1", 1, aff2)>>,
                !.scenarios = <<[DefaultRef EXCEPT
                                    !.controls = <<PlainControl("c1"), PlainControl("c2")>>]>>] :
                eff1 \in OptProb, cov1 \in OptProb, aff1 \in Affects \cup {NoStr},
                eff2 \in {1, Unit}, aff2 \in Affects}
    IN
        {Call("plan_portfolio", s[1], s[2], BaseDoc, 0) : s \in FailedLoads}
        \cup {Call("plan_portfolio", k, "ok", d, 0) : k \in SourceKinds, d \in FileDocs}
        \cup {Call("plan_portfolio", "data", "ok", d, 0) : d \in PlanDocs}
        \cup {Call("run_portfolio_simulation", s[1], s[2], BaseDoc, 1) : s \in FailedLoads}
        \cup {Call("run_portfolio_simulation", "data", "ok", d, n) :
                d \in RunDocs, n \in 1..NRuns}
        \cup {[Call("run_portfolio_simulation", "data", "ok", d, 1) EXCEPT !.seed = seed] :
                d \in RunDocs, seed \in 0..MaxSeed}
        \cup {Call("run_portfolio_simulation", "data", "ok", d, 1) :
                d \in UNION {CopulaDocs(<<[DefaultRef EXCEPT !.controls = cs]>>, FALSE) :
                                cs \in {<<PlainControl("c1")>>,
                                        <<PlainControl("c1"), PlainControl("c2")>>}}
                        \cup {[BaseDoc EXCEPT !.wellformed = FALSE]}}
        \cup {Call("run_portfolio_simulation", "data", "ok", d, n) :
                d \in MultiplierDocs, n \in 1..NRuns}
        \cup {Call("_portfolio_semantic_checks", "data", "ok", d, 0) : d \in WeightDocs}
        \cup AggregateCalls
        \cup MonteCarloCalls
        \cup SeverityCountCalls

(* ---------------------------------------------------------------------- *)
(* Specification                                                          *)
(* ---------------------------------------------------------------------- *)
Init ==
    LET
        NoValidation == [returned |-> FALSE, messages |-> <<>>]
        \* where a call starts
        EntryPoint(entry) ==
            IF entry = "_portfolio_semantic_checks" THEN "semantic_checks"
            ELSE IF entry = "_aggregate_portfolio_losses" THEN "aggregate"
            ELSE IF entry = "run_monte_carlo" THEN "run_monte_carlo"
            ELSE IF entry = "generate_severity" THEN "generate_severity"
            ELSE IF entry = "_aggregate_severities_by_count" THEN "aggregate_severities"
            ELSE "load"
    IN
        /\ call \in Calls
        /\ pc = EntryPoint(call.entry)
        /\ errors = <<>>
        /\ warnings = <<>>
        /\ catalog_ids = {}
        /\ assessment_by_id = <<>>
        /\ portfolio_controls_by_id = <<>>
        /\ dependency_plan = NoDependency
        /\ resolved_scenarios = <<>>
        /\ idx = 0
        /\ report = NoReport
        /\ control_state = <<>>
        /\ multipliers = <<>>
        /\ seeds = <<>>
        /\ scenario_losses = IF call.entry = "_aggregate_portfolio_losses"
                             THEN call.args.scenario_losses ELSE <<>>
        /\ scenario_weights = IF call.entry = "_aggregate_portfolio_losses"
                              THEN call.args.scenario_weights ELSE <<>>
        /\ result = NoResult
        /\ validation = NoValidation

Next ==
    \/ LoadSource
    \/ ValidateSchema
    \/ LoadCatalogs
    \/ LoadAssessments
    \/ BuildInventory
    \/ ResolveDependency
    \/ ResolveScenario
    \/ AssemblePlan
    \/ RunCheck
    \/ SampleControlState
    \/ RunScenario
    \/ Aggregate
    \/ PortfolioSemanticChecks
    \/ RunMonteCarlo
    \/ AggregateSeverities
    \/ GenerateSeverity

Spec == Init /\ [][Next]_vars

(* ---------------------------------------------------------------------- *)
(* The documents as the claims read them                                  *)
(* ---------------------------------------------------------------------- *)
\* plan_portfolio has returned from its last line, not from an early return
Assembled == report.returned /\ call.load = "ok" /\ SchemaValid(doc)

ErrorSet == Range(report.errors)
WarningSet == Range(report.warnings)

PortfolioEntriesOf(cid) == {e \in Range(doc.controls) : e.id = cid}
AssessmentEntriesOf(cid) ==
    {e \in UNION {Range(doc.assessments[k].entries) :
                    k \in {j \in 1..Len(doc.assessments) : doc.assessments[j].file = "ok"}} :
        e.id = cid}
\* no source supplies an effectiveness or a coverage for the control
NoData(cid) ==
    LET
        Supplies(e) == e.implementation_effectiveness # None \/ e.coverage # None
    IN
        /\ \A e \in PortfolioEntriesOf(cid) : ~Supplies(e)
        /\ \A e \in AssessmentEntriesOf(cid) : ~Supplies(e)

HasUnknownAsset(r) ==
    LET
        DocAssetNames == {doc.assets[k].name : k \in 1..Len(doc.assets)}
    IN
        r.binding.given /\ \E n \in Range(r.binding.names) : n \notin DocAssetNames
RefIndices == 1..Len(doc.scenarios)
LoadedRefs == {i \in RefIndices : doc.scenarios[i].file = "ok"}
RefOf(sid) == CHOOSE r \in Range(doc.scenarios) : r.id = sid

\* the pairs (resolved scenario, resolved control) the planner has built
PairsOf(scenarios) ==
    UNION {{<<scenarios[i], scenarios[i].controls[k]>> :
                k \in 1..Len(scenarios[i].controls)} : i \in 1..Len(scenarios)}
ResolvedPairs == PairsOf(resolved_scenarios)
PlanPairs == PairsOf(report.plan.scenarios)

\* the element of scenario.controls a resolved control was built from
ScenarioControlOf(p) ==
    CHOOSE c \in Range(RefOf(p[1].id).controls) : c.id = p[2].id

InUnit(x, scale) == x # None /\ 0 <= x /\ x <= scale
(* ---------------------------------------------------------------------- *)
(* Claims                                                                 *)
(* ---------------------------------------------------------------------- *)

\* C1: a returned PlanReport carries a plan if and only if its errors list
\* is empty, and ok is true exactly then; warnings do not enter into it.
C1_PlanIffNoErrors ==
    report.returned =>
        /\ report.plan.present <=> report.errors = <<>>
        /\ report.ok <=> report.errors = <<>>

\* a plan was produced although warnings were raised
C1_Witness ==
    report.returned /\ report.plan.present /\ report.warnings # <<>>

\* C2 (as stated): whenever planning reaches its end, every defect of the
\* portfolio has its entry in the errors list: every reference binding an
\* unknown asset, every scenario control without inventory data, an invalid
\* copula matrix.
C2_EveryDefectReported ==
    Assembled =>
        /\ \A i \in LoadedRefs :
            LET r == doc.scenarios[i] IN
            /\ HasUnknownAsset(r) =>
                    \E e \in ErrorSet : e.kind = "unknown_assets" /\ e.idx = i - 1
            /\ \A c \in Range(r.controls) :
                    NoData(c.id) =>
                        \E e \in ErrorSet :
                            e.kind = "no_inventory" /\ e.idx = i - 1 /\ e.who = c.id
        /\ (/\ doc.copula.present
            /\ doc.copula.has_matrix
            /\ _validate_corr_matrix(doc.copula.matrix, Len(doc.copula.targets)) # NoStr)
                => \E e \in ErrorSet : e.path = "portfolio.dependency.copula"

\* C3 (as stated): plan_portfolio never raises.
C3_PlannerNeverRaises == report.raised = NoStr

\* C4 (as stated): no failure escapes run_portfolio_simulation as an
\* exception.
C4_NoFailureEscapes == result.raised = NoStr

C6_EmptyBindingErrorExplicitWarning ==
    LET
        \* the binding of a reference once the default is applied
        ResolvedBindingEmpty(r) ==
            IF r.binding.given THEN r.binding.names = <<>> ELSE doc.assets = <<>>
        ScenarioPaths ==
            {"portfolio.scenarios", "portfolio.scenarios.path",
             "portfolio.scenarios.binding.applies_to_assets"}
    IN
        Assembled =>
            \A i \in LoadedRefs :
                LET r == doc.scenarios[i] IN
                /\ (r.basis = "per_asset_unit_per_year" /\ ResolvedBindingEmpty(r)) =>
                        /\ \E e \in ErrorSet : e.kind = "no_assets_bound" /\ e.idx = i - 1
                        /\ ~report.ok
                        /\ ~report.plan.present
                /\ (r.basis = "per_organization_per_year" /\ r.binding.given) =>
                        /\ \E w \in WarningSet :
                                w.kind = "basis_ignores_binding" /\ w.idx = i - 1
                        /\ ~HasUnknownAsset(r) =>
                            /\ \A e \in ErrorSet :
                                    (e.path \in ScenarioPaths /\ e.idx = i - 1)
                                        => e.kind = "no_inventory"
                            /\ \E k \in 1..Len(resolved_scenarios) :
                                    /\ resolved_scenarios[k].id = r.id
                                    /\ resolved_scenarios[k].cardinality = 1

\* one reference fails for its empty per-asset binding while another, per
\* organization with an explicit binding, is resolved with a warning
C6_Witness ==
    /\ Assembled
    /\ \E e \in ErrorSet : e.kind = "no_assets_bound"
    /\ \E w \in WarningSet : w.kind = "basis_ignores_binding"
    /\ \E k \in 1..Len(resolved_scenarios) :
            RefOf(resolved_scenarios[k].id).binding.given

\* C7: a control in both portfolio.controls and an assessment pack is
\* resolved with the effectiveness, coverage, reliability and affects of
\* the portfolio entry; the assessment entry serves only when
\* portfolio.controls has no entry of the id.
C7_PortfolioPrecedesAssessment ==
    \A p \in ResolvedPairs :
        LET rc == p[2]
            From(e) ==
                /\ rc.inventory_implementation_effectiveness = e.implementation_effectiveness
                /\ rc.inventory_coverage_value = e.coverage
                /\ rc.inventory_reliability = e.reliability
                /\ rc.affects = e.affects
        IN IF PortfolioEntriesOf(rc.id) # {}
           THEN \E e \in PortfolioEntriesOf(rc.id) : From(e)
           ELSE \E e \in AssessmentEntriesOf(rc.id) : From(e)

\* a control resolved from a portfolio entry while an assessment entry
\* says otherwise in every field
C7_Witness ==
    \E p \in ResolvedPairs :
        /\ PortfolioEntriesOf(p[2].id) # {}
        /\ \E e \in AssessmentEntriesOf(p[2].id) :
            /\ e.implementation_effectiveness # p[2].inventory_implementation_effectiveness
            /\ e.coverage # p[2].inventory_coverage_value
            /\ e.reliability # p[2].inventory_reliability
            /\ e.affects # p[2].affects

\* C8 (as stated): a scenario control for which no source supplies an
\* effectiveness or a coverage gives ok=false, no plan, and an error that
\* names the control.
C8_MissingInventoryIsNamed ==
    Assembled =>
        \A i \in LoadedRefs :
            \A c \in Range(doc.scenarios[i].controls) :
                NoData(c.id) =>
                    /\ ~report.ok
                    /\ ~report.plan.present
                    /\ \E e \in ErrorSet :
                            e.kind = "no_inventory" /\ e.idx = i - 1 /\ e.who = c.id

\* C9 (as stated): the three combined values of every resolved control of
\* a plan are numbers in [0,1].
C9_CombinedValuesAreNumbers ==
    \A p \in PlanPairs :
        /\ InUnit(p[2].combined_implementation_effectiveness, EffScale)
        /\ InUnit(p[2].combined_coverage_value, CovScale)
        /\ InUnit(p[2].combined_reliability, RelScale)

\* C9 (amended): combined_reliability is a number in [0,1]; the combined
\* effectiveness and the combined coverage are each absent, exactly when
\* the inventory has no effectiveness, no coverage, or a number in [0,1];
\* one of the two is a number.
C9_CombinedValuesBounded ==
    \A p \in PlanPairs :
        LET rc == p[2] IN
        /\ InUnit(rc.combined_reliability, RelScale)
        /\ IF rc.inventory_implementation_effectiveness = None
           THEN rc.combined_implementation_effectiveness = None
           ELSE InUnit(rc.combined_implementation_effectiveness, EffScale)
        /\ IF rc.inventory_coverage_value = None
           THEN rc.combined_coverage_value = None
           ELSE InUnit(rc.combined_coverage_value, CovScale)
        /\ \/ rc.combined_implementation_effectiveness # None
           \/ rc.combined_coverage_value # None

\* a plan with a control whose inventory has a coverage and no
\* effectiveness, the coverage brought down by the scenario's factor
C9_Witness ==
    \E p \in PlanPairs :
        /\ p[2].combined_implementation_effectiveness = None
        /\ p[2].combined_coverage_value # None
        /\ p[2].combined_coverage_value < p[2].inventory_coverage_value * Unit
        /\ p[2].inventory_reliability = None

DocHasMatrix == doc.copula.present /\ (doc.copula.has_matrix \/ doc.copula.has_rho)
Rejected == report.returned /\ ~report.ok /\ ~report.plan.present /\ report.errors # <<>>

\* C11: a copula matrix, explicit or generated, that is not symmetric, has
\* a diagonal entry other than 1, an entry outside [-1,1], or is not
\* len(targets) x len(targets) makes plan_portfolio return errors and no
\* plan.
C11_DefectiveMatrixRejected ==
    LET
        \* the correlation matrix of the document's copula: the explicit one, or
        \* the one generated from rho
        DocMatrix ==
            IF doc.copula.has_matrix THEN doc.copula.matrix
            ELSE _toeplitz_corr(Len(doc.copula.targets), doc.copula.rho)
        Square(m, dim) == Len(m) = dim /\ \A i \in 1..dim : Len(m[i]) = dim
        \* a matrix that is not dim x dim, or has a diagonal entry other than 1, an
        \* entry outside [-1,1], or two mirrored entries that differ
        Defective(m, dim) ==
            \/ ~Square(m, dim)
            \/ \E i \in 1..dim : m[i][i] # CorrScale
            \/ \E i \in 1..dim : \E j \in 1..dim : m[i][j] < -CorrScale \/ m[i][j] > CorrScale
            \/ \E i \in 1..dim : \E j \in 1..dim : m[i][j] # m[j][i]
    IN
        (report.returned /\ DocHasMatrix /\ Defective(DocMatrix, Len(doc.copula.targets)))
            => Rejected

\* a portfolio rejected for nothing but its matrix, which is square, of
\* unit diagonal and within range, and not symmetric
C11_Witness ==
    /\ Rejected
    /\ DocHasMatrix
    /\ \A e \in ErrorSet : e.path = "portfolio.dependency.copula" /\ e.kind = "symmetric"
    /\ Len(doc.copula.targets) >= 2

\* the ids the inventory knows: portfolio.controls and the loaded packs
KnownControlIds ==
    LET
        ControlIds == {ControlIdPool[i] : i \in 1..MaxTargets}
    IN
        {c \in ControlIds \cup {UnknownControl, ""} :
            PortfolioEntriesOf(c) # {} \/ AssessmentEntriesOf(c) # {}}
BadTarget(t) ==
    \/ t.head # "control:" \/ t.tail # ":state" \/ t.id = ""
    \/ t.id \notin KnownControlIds

\* C12: a copula target that is not control:<id>:state with a non-empty
\* id, or whose id is in neither portfolio.controls nor a loaded assessment
\* pack, makes plan_portfolio return an error on the targets and no plan.
C12_BadTargetRejected ==
    (Assembled /\ doc.copula.present /\ \E t \in Range(doc.copula.targets) : BadTarget(t))
        => /\ Rejected
           /\ \E e \in ErrorSet : e.path = "portfolio.dependency.copula.targets"

\* a portfolio rejected for a well-formed target of an unknown control next
\* to a target that resolves, and one rejected for a malformed target only
C12_Witness ==
    /\ Rejected
    /\ doc.copula.present
    /\ \A e \in ErrorSet : e.path = "portfolio.dependency.copula.targets"
    /\ \/ /\ \E e \in ErrorSet : e.kind = "target_not_found"
          /\ \E t \in Range(doc.copula.targets) : ~BadTarget(t)
       \/ /\ \E e \in ErrorSet : e.kind = "unsupported_targets"
          /\ \A t \in Range(doc.copula.targets) : t.id \in KnownControlIds

WeightedMethod == doc.method \in {"mixture", "choose_one"}
\* every reference of the document has a weight and the weights sum to 1
WeightsSumToOne ==
    /\ \A k \in RefIndices : doc.scenarios[k].weight.given
    /\ SumSeq([k \in RefIndices |-> doc.scenarios[k].weight.value]) = Unit
WeightErrors ==
    {m \in Range(validation.messages) :
        m.level = "error" /\ m.kind \in {"missing_weight", "weight_sum"}}

\* C13 (as stated): for a portfolio whose method is mixture or choose_one,
\* planning fails unless every scenario reference has a weight and the
\* weights sum to 1.
C13_PlanningFailsOnBadWeights ==
    (Assembled /\ WeightedMethod /\ ~WeightsSumToOne) => ~report.ok

\* C13 (amended): for a portfolio whose method is mixture or choose_one,
\* the semantic checks of the validator report an error exactly when some
\* scenario reference has no weight or the weights do not sum to 1.
C13_ValidatorChecksWeights ==
    (validation.returned /\ WeightedMethod) => (WeightErrors # {} <=> ~WeightsSumToOne)

\* two references that both have a weight, rejected for the sum alone
C13_Witness ==
    /\ validation.returned
    /\ WeightedMethod
    /\ Len(doc.scenarios) = 2
    /\ \A k \in RefIndices : doc.scenarios[k].weight.given
    /\ \E m \in WeightErrors : m.kind = "weight_sum"
    /\ \A m \in Range(validation.messages) : m.kind = "weight_sum"

\* _aggregate_portfolio_losses has been applied to the loss vectors of a call
Aggregated == call.entry = "_aggregate_portfolio_losses" /\ result.returned
Trials == 1..call.n_runs
ScenarioIndices == 1..Len(scenario_losses)
RECURSIVE SumOver(_, _)
SumOver(K, t) ==
    IF K = {} THEN 0
    ELSE LET k == CHOOSE x \in K : TRUE
         IN scenario_losses[k][t] + SumOver(K \ {k}, t)

\* C14: with semantics sum the aggregated loss of each trial is the sum of
\* the scenarios' losses of that trial, and with semantics max it is the
\* largest of them.
C14_SumAndMax ==
    (Aggregated /\ call.args.semantics \in {"sum", "max"}) =>
        /\ result.success
        /\ Len(result.total) = call.n_runs
        /\ call.args.semantics = "sum" =>
               \A t \in Trials : result.total[t] = SumOver(ScenarioIndices, t)
        /\ call.args.semantics = "max" =>
               \A t \in Trials :
                   /\ \A k \in ScenarioIndices : result.total[t] >= scenario_losses[k][t]
                   /\ \E k \in ScenarioIndices : result.total[t] = scenario_losses[k][t]

\* two scenarios under max, the second with the larger loss in one trial
\* and the smaller in another
C14_Witness ==
    /\ Aggregated
    /\ call.args.semantics = "max"
    /\ Len(scenario_losses) = 2
    /\ \E t \in Trials : scenario_losses[2][t] > scenario_losses[1][t]
                          /\ result.total[t] = scenario_losses[2][t]
    /\ \E t \in Trials : scenario_losses[1][t] > scenario_losses[2][t]
                          /\ result.total[t] = scenario_losses[1][t]

Weighted ==
    LET
        WeightsGiven == \A k \in ScenarioIndices : ~scenario_weights[k].nan
        \* the weights of the call sum to 1
        UnitWeights ==
            /\ WeightsGiven
            /\ SumSeq([k \in ScenarioIndices |-> scenario_weights[k].value]) = Unit
    IN
        Aggregated /\ call.args.semantics \in {"mixture", "choose_one"} /\ UnitWeights

\* C15: with semantics mixture or choose_one and weights summing to 1, the
\* aggregated loss of every trial is the loss, in that same trial, of one
\* scenario whose weight is not 0; the aggregation fails only when a
\* weight is negative.
C15_OneScenarioPerTrial ==
    Weighted =>
        /\ result.success <=> \A k \in ScenarioIndices : scenario_weights[k].value >= 0
        /\ result.success =>
              /\ Len(result.total) = call.n_runs
              /\ \A t \in Trials : \E k \in ScenarioIndices :
                    /\ scenario_weights[k].value # 0
                    /\ result.total[t] = scenario_losses[k][t]

\* two scenarios of positive weight whose losses differ in both trials, one
\* picked in the first trial and the other in the second
C15_Witness ==
    /\ Weighted
    /\ result.success
    /\ Len(scenario_losses) = 2
    /\ call.n_runs = 2
    /\ \A k \in ScenarioIndices : scenario_weights[k].value > 0
    /\ \A t \in Trials : scenario_losses[1][t] # scenario_losses[2][t]
    /\ result.total[1] = scenario_losses[1][1]
    /\ result.total[2] = scenario_losses[2][2]

PortfolioRun == call.entry = "run_portfolio_simulation"
\* a scenario of the plan was run and returned no losses
ScenarioFailed == PortfolioRun /\ Len(multipliers) > Len(scenario_losses)

\* C16: once a scenario of the plan has failed, run_portfolio_simulation
\* has returned a result with success=false, no metrics and no losses, and
\* the failed scenario is the last one that was run.
C16_FailureIsWholesale ==
    ScenarioFailed =>
        /\ pc = "done"
        /\ result.returned /\ ~result.success /\ result.errors # <<>>
        /\ ~result.has_metrics /\ result.total = <<>>
        /\ Len(multipliers) = Len(scenario_losses) + 1

\* a plan of two scenarios whose first scenario failed
C16_Witness ==
    /\ ScenarioFailed
    /\ result.returned
    /\ Len(plan.scenarios) = 2
    /\ Len(multipliers) = 1

\* the scenarios of the plan whose multipliers have been computed
ControlsOf(j) == plan.scenarios[j].controls
EffOf(c) ==
    IF c.combined_implementation_effectiveness = None THEN 0
    ELSE c.combined_implementation_effectiveness
StateOf(c, t) == IF c.id \in DOMAIN control_state THEN control_state[c.id][t] ELSE 1
AffectsOf(c) == IF c.affects = NoStr THEN "frequency" ELSE c.affects
RECURSIVE ProductOver(_, _, _)
ProductOver(cs, K, t) ==
    LET
        CovOf(c) == IF c.combined_coverage_value = None THEN CovScale ELSE c.combined_coverage_value
        \* 1 - effectiveness x coverage x state, over RedScale
        Remaining(c) == RedScale - EffOf(c) * CovOf(c) * StateOf(c, t)
    IN
        IF K = {} THEN 1
        ELSE LET k == CHOOSE x \in K : TRUE
             IN Remaining(cs[k]) * ProductOver(cs, K \ {k}, t)
\* the product over the controls K of the scenario, on the scale of its
\* multipliers
Scaled(j, K, t) ==
    ProductOver(ControlsOf(j), K, t) * Pow(RedScale, Len(ControlsOf(j)) - Cardinality(K))
Affecting(j, kinds) == {k \in 1..Len(ControlsOf(j)) : AffectsOf(ControlsOf(j)[k]) \in kinds}
\* C18: a control whose combined implementation effectiveness is 0 or whose
\* combined coverage value is 0 contributes the factor 1 to both
\* multipliers of its scenario in every trial: they are the products over
\* the scenario's other controls.
C18_ZeroEffectControl ==
    LET
        ZeroEffect(c) ==
            c.combined_implementation_effectiveness = 0 \/ c.combined_coverage_value = 0
    IN
        PortfolioRun =>
            \A j \in 1..Len(multipliers) : \A k \in 1..Len(ControlsOf(j)) :
                ZeroEffect(ControlsOf(j)[k]) =>
                    \A t \in 1..call.n_runs :
                        /\ multipliers[j].freq_mult[t]
                              = Scaled(j, Affecting(j, {"frequency", "both"}) \ {k}, t)
                        /\ multipliers[j].sev_mult[t]
                              = Scaled(j, Affecting(j, {"severity", "both"}) \ {k}, t)

\* a control of coverage 0 and positive effectiveness that is up in a
\* trial and affects both, next to a control that reduces the frequency
C18_Witness ==
    /\ PortfolioRun
    /\ Len(multipliers) = 1
    /\ Len(ControlsOf(1)) = 2
    /\ ControlsOf(1)[1].combined_coverage_value = 0
    /\ EffOf(ControlsOf(1)[1]) > 0
    /\ AffectsOf(ControlsOf(1)[1]) = "both"
    /\ \E t \in 1..call.n_runs :
          /\ StateOf(ControlsOf(1)[1], t) = 1
          /\ multipliers[1].sev_mult[t] = multipliers[1].scale
          /\ multipliers[1].freq_mult[t] < multipliers[1].scale

\* C20: the frequency multiplier of a scenario is, in every trial, the
\* product of 1 - effectiveness x coverage x state over its controls that
\* affect frequency or both, and the severity multiplier the same product
\* over its controls that affect severity or both.
C20_MultipliersAreProducts ==
    PortfolioRun =>
        \A j \in 1..Len(multipliers) : \A t \in 1..call.n_runs :
            /\ multipliers[j].freq_mult[t] = Scaled(j, Affecting(j, {"frequency", "both"}), t)
            /\ multipliers[j].sev_mult[t] = Scaled(j, Affecting(j, {"severity", "both"}), t)
            /\ multipliers[j].scale = Pow(RedScale, Len(ControlsOf(j)))

\* a control that affects both and a control that affects frequency, both
\* up in a trial: the two multipliers are reduced and differ
C20_Witness ==
    /\ PortfolioRun
    /\ Len(multipliers) = 1
    /\ Len(ControlsOf(1)) = 2
    /\ AffectsOf(ControlsOf(1)[1]) = "both"
    /\ AffectsOf(ControlsOf(1)[2]) = "frequency"
    /\ \E t \in 1..call.n_runs :
          /\ \A k \in 1..2 : StateOf(ControlsOf(1)[k], t) = 1
          /\ multipliers[1].sev_mult[t] < multipliers[1].scale
          /\ multipliers[1].freq_mult[t] < multipliers[1].sev_mult[t]

\* C19: run_monte_carlo returns a result with success=false and a
\* non-empty errors list whenever the scenario names an unsupported model,
\* a multiplier is neither a scalar nor of length n_runs, or a gamma shape
\* or scale or a lognormal median is not positive.
C19_BadInputFails ==
    LET
        MonteCarloRun == call.entry = "run_monte_carlo" /\ pc \in {"done", "raised"}
        ScenarioOfCall == call.args.yaml_content.scenario
        UnsupportedModel ==
            \/ ScenarioOfCall.frequency.model \notin {"poisson", "gamma", "hierarchical_gamma_poisson"}
            \/ ScenarioOfCall.severity.model \notin {"lognormal", "gamma", "mixture"}
        \* neither None, nor a scalar, nor n_runs numbers
        Malformed(m) ==
            \/ m.kind = "unconvertible"
            \/ m.kind = "array" /\ Len(m.values) # call.n_runs
        NonPositive(q) == q.given /\ q.value <= 0
        DegenerateParameter ==
            \/ /\ ScenarioOfCall.frequency.model = "gamma"
               /\ \/ NonPositive(ScenarioOfCall.frequency.parameters.shape)
                  \/ NonPositive(ScenarioOfCall.frequency.parameters.scale)
            \/ /\ ScenarioOfCall.severity.model = "gamma"
               /\ \/ NonPositive(ScenarioOfCall.severity.parameters.shape)
                  \/ NonPositive(ScenarioOfCall.severity.parameters.scale)
            \/ /\ ScenarioOfCall.severity.model = "lognormal"
               /\ NonPositive(ScenarioOfCall.severity.parameters.median)
    IN
        (/\ MonteCarloRun
         /\ \/ UnsupportedModel
            \/ Malformed(call.args.frequency_rate_multiplier)
            \/ Malformed(call.args.severity_loss_multiplier)
            \/ DegenerateParameter)
            => result.returned /\ ~result.success /\ result.errors # <<>>

\* C21: once the control states of a portfolio run have been sampled, every
\* control referenced by a scenario of the plan has a sampled state, also
\* when the plan has a copula whose targets do not name it.
C21_EveryControlSampled ==
    (PortfolioRun /\ pc = "run_scenarios") =>
        \A j \in 1..Len(plan.scenarios) : \A k \in 1..Len(ControlsOf(j)) :
            ControlsOf(j)[k].id \in DOMAIN control_state

\* C22: in a portfolio run with a base seed, the scenario at index k is
\* run with the seed base_seed + k * 1000, and no two draws of the run (the
\* control-state draw and the draws of the scenarios) are given the same
\* seed.
C22_SeedsFanOut ==
    (PortfolioRun /\ call.seed # None) =>
        LET Drawn == {i \in 1..Len(seeds) : seeds[i].draw \in {"control_state", "scenario"}}
        IN /\ \A i \in Drawn : seeds[i].draw = "scenario" =>
                    seeds[i].seed = call.seed + seeds[i].index * 1000
           /\ \A i, j \in Drawn : i # j => seeds[i].seed # seeds[j].seed

\* C23: for non-negative counts and a severity vector of length
\* sum(counts), _aggregate_severities_by_count gives trial i the sum of the
\* next counts[i] severities in order: the slices of the trials are disjoint
\* and cover the vector, a trial with count 0 gets 0, and the losses of the
\* trials add up to the total of the severities.
C23_SeveritiesPartitioned ==
    (call.entry = "_aggregate_severities_by_count" /\ pc = "done") =>
        LET counts == call.args.counts
            severities == call.args.severities
            losses == result.total
            \* the positions of the severities of trial i
            Slice(i) == {p \in 1..Len(severities) :
                            /\ p > SumSeq(SubSeq(counts, 1, i - 1))
                            /\ p <= SumSeq(SubSeq(counts, 1, i))}
            RECURSIVE Sum(_)
            Sum(K) == IF K = {} THEN 0
                      ELSE LET p == CHOOSE x \in K : TRUE
                           IN severities[p] + Sum(K \ {p})
        IN /\ Len(losses) = Len(counts)
           /\ \A i \in 1..Len(counts) :
                /\ Cardinality(Slice(i)) = counts[i]
                /\ losses[i] = Sum(Slice(i))
                /\ counts[i] = 0 => losses[i] = 0
           /\ \A p \in 1..Len(severities) :
                Cardinality({i \in 1..Len(counts) : p \in Slice(i)}) = 1
           /\ SumSeq(losses) = SumSeq(severities)

\* a trial without events and a trial with several events, the severities
\* not all equal
C23_Witness ==
    /\ call.entry = "_aggregate_severities_by_count" /\ pc = "done"
    /\ \E i \in 1..Len(call.args.counts) : call.args.counts[i] = 0
    /\ \E i \in 1..Len(call.args.counts) : call.args.counts[i] > 1
    /\ Cardinality(Range(call.args.severities)) > 1
    /\ result.total # Zeros(Len(call.args.counts))

\* C24: run_monte_carlo hands its frequency_rate_multiplier to
\* generate_frequency as rate_multiplier, which accepts it for each of the
\* three frequency models and applies it to the rate: a run whose
\* multiplier is 0 in a trial succeeds with no loss in that trial.
C24_RateMultiplierApplied ==
    LET scenario == call.args.yaml_content.scenario
        fmult == call.args.frequency_rate_multiplier
        smult == call.args.severity_loss_multiplier
        WellFormed(m) == m.kind \in {"none", "scalar"}
                         \/ (m.kind = "array" /\ Len(m.values) = call.n_runs)
        ValueAt(m, t) == IF m.kind = "scalar" THEN m.values[1] ELSE m.values[t]
    IN (/\ call.entry = "run_monte_carlo" /\ pc \in {"done", "raised"}
        /\ call.args.yaml_content.parses
        /\ scenario.frequency.model \in {"poisson", "gamma", "hierarchical_gamma_poisson"}
        /\ scenario.severity.model \in {"lognormal", "gamma", "mixture"}
        /\ WellFormed(fmult) /\ WellFormed(smult)
        /\ fmult.kind # "none"
        /\ \A t \in 1..call.n_runs : ValueAt(fmult, t) = 0)
        => (result.returned /\ result.success /\ result.total = Zeros(call.n_runs))

\* C25: for the lognormal model, generate_severity returns no loss samples
\* when the parameters carry both the single_losses list and one of median,
\* mu and sigma.
C25_BothIsAnError ==
    LET sev == call.args.yaml_content.scenario.severity
    IN (/\ call.entry = "generate_severity" /\ pc \in {"done", "raised"}
        /\ sev.model = "lognormal"
        /\ sev.parameters.single_losses # NoStr
        /\ \/ sev.parameters.median.given
           \/ sev.parameters.mu.given
           \/ sev.parameters.sigma.given)
        => ~(result.returned /\ \E k \in 1..Len(result.total) : result.total[k] > 0)

\* C26: with semantics mixture or choose_one, _aggregate_portfolio_losses
\* never fails: when a weight is missing or negative, or the weights' total
\* is not positive, the loss of every trial is the loss of any one scenario
\* in that trial; otherwise it is the loss of a scenario of positive weight.
C26_InvalidWeightsFallBack ==
    LET Missing == \E k \in ScenarioIndices : scenario_weights[k].nan
        Negative == \E k \in ScenarioIndices : scenario_weights[k].value < 0
        Total == SumSeq([k \in ScenarioIndices |-> scenario_weights[k].value])
        Invalid == Missing \/ Negative \/ Total <= 0
    IN (Aggregated /\ call.args.semantics \in {"mixture", "choose_one"}) =>
          /\ result.success
          /\ Len(result.total) = call.n_runs
          /\ \A t \in Trials : \E k \in ScenarioIndices :
                /\ result.total[t] = scenario_losses[k][t]
                /\ Invalid \/ scenario_weights[k].value > 0

\* C27 (as stated): the matrix of the plan's copula is the Toeplitz matrix
\* of rho when the document's structure is toeplitz, and otherwise the
\* document's explicit matrix, which is then given; it is len(targets) x
\* len(targets) and the targets are those of the document, in order.
C27_MatrixByStructure ==
    LET cop == doc.copula
        dim == Len(cop.targets)
        Dist(i, j) == IF i < j THEN j - i ELSE i - j
        Toeplitz == [i \in 1..dim |-> [j \in 1..dim |->
                        Pow(cop.rho, Dist(i, j)) * Pow(Unit, MaxTargets - 1 - Dist(i, j))]]
    IN (report.returned /\ report.ok /\ cop.present) =>
          /\ plan.dependency.present
          /\ plan.dependency.targets = cop.targets
          /\ Len(plan.dependency.matrix) = dim
          /\ \A i \in 1..dim : Len(plan.dependency.matrix[i]) = dim
          /\ IF cop.structure = "toeplitz"
             THEN cop.has_rho /\ plan.dependency.matrix = Toeplitz
             ELSE cop.has_matrix /\ plan.dependency.matrix = cop.matrix

\* C27 (amended): the matrix of the plan's copula is the document's explicit
\* matrix when the document gives one, whatever its structure, and
\* otherwise the Toeplitz matrix of rho, which is then given; it is
\* len(targets) x len(targets) and the targets are those of the document,
\* in order.
C27_MatrixFirst ==
    LET cop == doc.copula
        dim == Len(cop.targets)
        Dist(i, j) == IF i < j THEN j - i ELSE i - j
        Toeplitz == [i \in 1..dim |-> [j \in 1..dim |->
                        Pow(cop.rho, Dist(i, j)) * Pow(Unit, MaxTargets - 1 - Dist(i, j))]]
    IN (report.returned /\ report.ok /\ cop.present) =>
          /\ plan.dependency.present
          /\ plan.dependency.targets = cop.targets
          /\ Len(plan.dependency.matrix) = dim
          /\ \A i \in 1..dim : Len(plan.dependency.matrix[i]) = dim
          /\ IF cop.has_matrix
             THEN plan.dependency.matrix = cop.matrix
             ELSE /\ cop.has_rho
                  /\ cop.structure \in {NoStr, "toeplitz"}
                  /\ plan.dependency.matrix = Toeplitz

\* a plan over three targets whose matrix was generated from rho = 1/2: the
\* entries two off the diagonal are 1/4
C27_Witness ==
    /\ report.returned /\ report.ok
    /\ doc.copula.present /\ ~doc.copula.has_matrix
    /\ doc.copula.rho = 1
    /\ Len(plan.dependency.targets) = MaxTargets
    /\ plan.dependency.targets[1] # plan.dependency.targets[2]
    /\ plan.dependency.matrix[1][MaxTargets] = 1
    /\ plan.dependency.matrix[1][2] = Pow(Unit, MaxTargets - 2)

\* C28: within a run of run_portfolio_simulation the control states are
\* drawn in one step, before any other draw and before any scenario is run,
\* and never change afterwards; the multipliers of every scenario that is
\* run are computed from these states.
C28_SampledOnce ==
    [][/\ pc = "sample_controls" => (seeds = <<>> /\ multipliers = <<>>)
       /\ control_state' # control_state =>
             /\ pc = "sample_controls" /\ pc' = "run_scenarios"
             /\ multipliers' = <<>>
       /\ multipliers' # multipliers =>
             /\ control_state' = control_state
             /\ \A j \in 1..Len(multipliers') : \A t \in 1..call.n_runs :
                   /\ multipliers'[j].freq_mult[t]
                         = Scaled(j, Affecting(j, {"frequency", "both"}), t)'
                   /\ multipliers'[j].sev_mult[t]
                         = Scaled(j, Affecting(j, {"severity", "both"}), t)']_vars

\* a run whose scenario was given multipliers from a control that was
\* sampled down in the first trial and up in the second
C28_Witness ==
    /\ PortfolioRun
    /\ call.n_runs = 2
    /\ Len(multipliers) = 1
    /\ \E k \in 1..Len(ControlsOf(1)) :
          /\ ControlsOf(1)[k].id \in DOMAIN control_state
          /\ control_state[ControlsOf(1)[k].id] = <<0, 1>>
    /\ multipliers[1].freq_mult[1] = multipliers[1].scale
    /\ multipliers[1].freq_mult[2] < multipliers[1].scale

\* C29: when portfolio.controls has an entry for a control of a scenario,
\* every inventory field of the resolved control is that of a portfolio
\* entry, unset where the portfolio entry leaves it unset, whatever an
\* assessment entry says; and when the portfolio entries set neither
\* effectiveness nor coverage, plan_portfolio returns errors and no plan.
C29_PrecedenceIsPerEntry ==
    LET Unset(e) == e.implementation_effectiveness = None /\ e.coverage = None
    IN Assembled =>
          /\ \A p \in ResolvedPairs :
                PortfolioEntriesOf(p[2].id) # {} =>
                    /\ \E e \in PortfolioEntriesOf(p[2].id) :
                          p[2].inventory_implementation_effectiveness
                              = e.implementation_effectiveness
                    /\ \E e \in PortfolioEntriesOf(p[2].id) :
                          p[2].inventory_coverage_value = e.coverage
                    /\ \E e \in PortfolioEntriesOf(p[2].id) :
                          p[2].inventory_reliability = e.reliability
                    /\ \E e \in PortfolioEntriesOf(p[2].id) : p[2].affects = e.affects
          /\ \A i \in LoadedRefs : \A c \in Range(doc.scenarios[i].controls) :
                (/\ PortfolioEntriesOf(c.id) # {}
                 /\ \A e \in PortfolioEntriesOf(c.id) : Unset(e))
                    => /\ Rejected
                       /\ \A q \in ResolvedPairs : q[2].id # c.id

\* planning failed for nothing but a control whose portfolio entry sets
\* neither effectiveness nor coverage, while an assessment entry sets both
C29_Witness ==
    /\ Assembled
    /\ Rejected
    /\ \A e \in ErrorSet : e.kind = "no_inventory"
    /\ \E i \in LoadedRefs : \E c \in Range(doc.scenarios[i].controls) :
          /\ PortfolioEntriesOf(c.id) # {}
          /\ \A e \in PortfolioEntriesOf(c.id) :
                e.implementation_effectiveness = None /\ e.coverage = None
          /\ \E a \in AssessmentEntriesOf(c.id) :
                a.implementation_effectiveness # None /\ a.coverage # None

\* C30: for every scenario of the plan of a run and every trial, the
\* frequency and severity multipliers _control_multipliers_for_scenario
\* returns are in [0,1], are 1 in a trial where every control of the
\* scenario is down, and are no larger than those it returns for the
\* scenario without any one of its controls.
C30_MultipliersBounded ==
    LET Without(cs, k) == SubSeq(cs, 1, k - 1) \o SubSeq(cs, k + 1, Len(cs))
        Mult(sc) == _control_multipliers_for_scenario(sc, control_state, call.n_runs)
    IN (PortfolioRun /\ report.returned /\ report.ok) =>
          \A j \in 1..Len(plan.scenarios) :
             LET m == Mult(plan.scenarios[j])
             IN /\ j <= Len(multipliers) => multipliers[j] = m
                /\ \A t \in 1..call.n_runs :
                      /\ 0 <= m.freq_mult[t] /\ m.freq_mult[t] <= m.scale
                      /\ 0 <= m.sev_mult[t] /\ m.sev_mult[t] <= m.scale
                      /\ (\A k \in 1..Len(ControlsOf(j)) : StateOf(ControlsOf(j)[k], t) = 0)
                            => (m.freq_mult[t] = m.scale /\ m.sev_mult[t] = m.scale)
                      /\ \A k \in 1..Len(ControlsOf(j)) :
                            LET less == Mult([plan.scenarios[j] EXCEPT
                                                !.controls = Without(ControlsOf(j), k)])
                            IN /\ m.freq_mult[t] * less.scale <= less.freq_mult[t] * m.scale
                               /\ m.sev_mult[t] * less.scale <= less.sev_mult[t] * m.scale

\* a scenario of two controls run over two trials: both controls down in
\* one trial, where both multipliers are 1, and both up in the other, where
\* the frequency multiplier is below the one of either control alone
C30_Witness ==
    /\ PortfolioRun /\ report.returned /\ report.ok
    /\ call.n_runs = 2
    /\ Len(multipliers) = 1
    /\ Len(ControlsOf(1)) = 2
    /\ \E t \in 1..2 :
          /\ \A k \in 1..2 : StateOf(ControlsOf(1)[k], t) = 0
          /\ multipliers[1].freq_mult[t] = multipliers[1].scale
          /\ multipliers[1].sev_mult[t] = multipliers[1].scale
    /\ \E t \in 1..2 :
          /\ \A k \in 1..2 : StateOf(ControlsOf(1)[k], t) = 1
          /\ \A k \in 1..2 :
                multipliers[1].freq_mult[t]
                    < RedScale * MultiplierProduct(<<ControlsOf(1)[k]>>, 1, control_state, t,
                                                   {"frequency", "both"})

====
